---- MODULE Spec2Model ----
(***************************************************************************)
(* A model of the data layer of mec-connect: the SQLite store created by   *)
(* createTablesSQL, the connection set up by initDatabase, and the         *)
(* operations of lib/operations that write to it.  Every awaited store     *)
(* call of a multi-statement operation is one step of that operation.      *)
(***************************************************************************)
EXTENDS Integers, Sequences, FiniteSets, TLC

VARIABLES
    db,      \* the database file and the connection the application holds
    ops      \* the calls in flight, one per slot

vars == <<db, ops>>

----------------------------------------------------------------------------
(* Bounds of the model *)

MaxStudents == 2        \* students rows ever inserted
MaxDepartments == 1     \* departments rows ever inserted
MaxBillItems == 2       \* bill_items rows ever inserted
MaxBills == 1           \* bills rows ever inserted by createBillWithItems
MaxFormItems == 1       \* bill items typed into the Departments form
MaxListLen == 2         \* longest studentIds / items list passed in
MaxFaults == 1          \* store calls of one call that fail with an I/O error

Slots == {1, 2}
SeqSlots == {1}

\* ids a caller may pass.  An id whose row has not been inserted yet names no
\* row; a department id beyond MaxDepartments never names one.
StudentIdArgs == 1..MaxStudents
\* the students a bill is made out to by createBillWithItems
BillStudentIdArgs == {1}
DepartmentIdArgs == 1..(MaxDepartments + 1)

Tuition == 100
Books == 20
BillItemAmounts == {Tuition, Books}

\* the records a caller of addStudent and of addDepartment passes, and the
\* values an update may set in their place
StudentNames == {"Ama", "Kofi"}
DepartmentNames == {"Form1", "Form2"}
NewStudents ==
    {[firstname |-> "Ama", othernames |-> "Mensah", phone |-> "024", address |-> "Accra"]}
NewDepartments == {[name |-> "Form1"]}

RECURSIVE SeqsUpTo(_, _)
SeqsUpTo(S, n) ==
    IF n = 0 THEN {<<>>}
    ELSE LET shorter == SeqsUpTo(S, n - 1)
         IN  shorter \cup {Append(q, x) : q \in {t \in shorter : Len(t) = n - 1}, x \in S}

StudentIdLists == SeqsUpTo(StudentIdArgs, MaxListLen)

\* the bill items a caller of createDepartment or updateDepartment submits
\* with a department
DepartmentBillItems == SeqsUpTo({[amount |-> a] : a \in BillItemAmounts}, MaxListLen)

\* the payloads of createDepartment: billItems left out, or a list of them
CreateDepartmentPayloads ==
    {[name |-> "Form1"]}
        \cup {[name |-> "Form1", billItems |-> items] : items \in DepartmentBillItems}

\* the records a caller of updateDepartment passes: with the id of a department,
\* an id that names none, or no id; with billItems or without
UpdateDepartmentPayloads ==
    LET named == {[name |-> n] : n \in DepartmentNames}
                     \cup {[name |-> n, id |-> id] : n \in DepartmentNames,
                                                     id \in DepartmentIdArgs}
    IN  named \cup {[f \in DOMAIN p \cup {"billItems"} |->
                        IF f = "billItems" THEN items ELSE p[f]] :
                    p \in named, items \in DepartmentBillItems}

\* the pagination a caller of searchStudents passes: page and pageSize as they
\* should be, and page 0, pageSize 0 and a negative pageSize
Pages == {0, 1, 2}
PageSizes == {-1, 0, 1, 2}

\* the record rec with the field f set to v
With(rec, f, v) == [g \in DOMAIN rec \cup {f} |-> IF g = f THEN v ELSE rec[g]]

\* the texts a caller searches for: none, a blank, a letter of a first name in
\* the other case, part of a first name, part of an address
SearchQueries == {"", " ", "k", "of", "cc"}

\* SearchOptions: a query, with or without a filter on firstname (a filter
\* value of '' is one the code skips) and with or without a sort on firstname
SearchOptionsSet ==
    LET queried == {[query |-> q] : q \in SearchQueries}
        filtered == queried \cup {With(o, "filters", [firstname |-> v]) :
                                     o \in queried, v \in {"", "Kofi"}}
    IN  filtered
          \cup {With(o, "sortBy", "firstname") : o \in filtered}
          \cup {With(With(o, "sortBy", "firstname"), "sortOrder", "desc") : o \in filtered}

\* the options of searchStudents: searchOptions, pagination and
\* includeInactive, each given or not
SearchStudentsOptions ==
    LET searched == {<<>>} \cup {[searchOptions |-> o] : o \in SearchOptionsSet}
        paged == searched \cup {With(o, "pagination", [page |-> p, pageSize |-> z]) :
                                   o \in searched, p \in Pages, z \in PageSizes}
    IN  paged \cup {With(o, "includeInactive", b) : o \in paged, b \in BOOLEAN}

\* the records a caller of updateStudent passes: with an id or without
UpdateStudentPayloads ==
    {[firstname |-> n] : n \in StudentNames}
        \cup {[firstname |-> n, id |-> id] : n \in StudentNames, id \in StudentIdArgs}

\* the records a caller of updateBill and of updateBillItem passes: the row to
\* change and its new amount, with an id or without.  The other columns are
\* passed back as they were read.
BillIdArgs == 1..MaxBills
BillItemIdArgs == 1..MaxBillItems
UpdateBillPayloads ==
    {[totalAmount |-> a] : a \in BillItemAmounts}
        \cup {[totalAmount |-> a, id |-> id] : a \in BillItemAmounts, id \in BillIdArgs}
UpdateBillItemPayloads ==
    {[amount |-> a] : a \in BillItemAmounts}
        \cup {[amount |-> a, id |-> id] : a \in BillItemAmounts, id \in BillItemIdArgs}

\* line items a caller of createBillWithItems may submit: every field given,
\* quantity 0 with no discount, every optional field left out, and an item
\* whose bill item is the last the store can ever hold
PayloadItems ==
    {[billItemId |-> 1, amount |-> Tuition, quantity |-> 2, discount |-> 10],
     [billItemId |-> 1, amount |-> Tuition, quantity |-> 0],
     [billItemId |-> 1],
     [billItemId |-> MaxBillItems, amount |-> Books, discount |-> 0]}

ItemLists == SeqsUpTo(PayloadItems, MaxListLen)

\* item lists a caller of createBillsForDepartment may pass: stored amounts,
\* and an overriding amount with a quantity
BillRequests ==
    {<<[billItemId |-> 1], [billItemId |-> 2]>>,
     <<[billItemId |-> 1, amount |-> Books, quantity |-> 2]>>}

----------------------------------------------------------------------------
(* The store: the tables of createTablesSQL *)

\* the tables createTablesSQL creates
Tables ==
    {"students", "departments", "student_departments", "bill_items", "bills",
     "bill_item_relations", "payments"}

\* sqlite: a statement naming a table that does not exist fails when prepared
TableExists(name) == name \in Tables

\* an empty database: no rows, every AUTOINCREMENT sequence at 0
EmptyStore ==
    [students |-> {}, departments |-> {}, student_departments |-> {},
     bill_items |-> {}, bills |-> {}, bill_item_relations |-> {}, payments |-> {},
     seq |-> [students |-> 0, departments |-> 0, student_departments |-> 0,
              bill_items |-> 0, bills |-> 0, bill_item_relations |-> 0,
              payments |-> 0]]

Ids(rows) == {r.id : r \in rows}

\* the result of a store call: ok = FALSE is a rejected promise
Ok(d, id) == [ok |-> TRUE, db |-> d, lastInsertRowId |-> id, error |-> ""]
Failed(d, message) == [ok |-> FALSE, db |-> d, lastInsertRowId |-> 0, error |-> message]

\* a write: outside a transaction sqlite commits each statement on its own
Write(d, st) ==
    [d EXCEPT !.store = st, !.committed = IF d.inTxn THEN @ ELSE st]

\* db.execAsync('BEGIN TRANSACTION'): fails inside a transaction
execBeginNoTransaction(d) ==
    IF d.inTxn THEN Failed(d, "cannot start a transaction within a transaction")
    ELSE Ok(d, 0)

execBegin(d) ==
    IF d.inTxn THEN Failed(d, "cannot start a transaction within a transaction")
    ELSE Ok([d EXCEPT !.inTxn = TRUE], 0)

\* db.execAsync('COMMIT'): fails when no transaction is active
execCommitLost(d) ==
    IF d.inTxn THEN Ok([d EXCEPT !.inTxn = FALSE, !.store = d.committed], 0)
    ELSE Failed(d, "cannot commit - no transaction is active")

execCommit(d) ==
    IF d.inTxn THEN Ok([d EXCEPT !.inTxn = FALSE, !.committed = d.store], 0)
    ELSE Failed(d, "cannot commit - no transaction is active")

\* db.execAsync('ROLLBACK'): fails when no transaction is active
execRollbackLeftOpen(d) ==
    IF d.inTxn THEN Ok(d, 0)
    ELSE Failed(d, "cannot rollback - no transaction is active")

execRollback(d) ==
    IF d.inTxn THEN Ok([d EXCEPT !.inTxn = FALSE, !.store = d.committed], 0)
    ELSE Failed(d, "cannot rollback - no transaction is active")

\* a REFERENCES clause: checked only while PRAGMA foreign_keys is ON
ForeignKeyOk(d, parents, id) == ~d.foreignKeys \/ id \in Ids(parents)

\* INSERT INTO students (firstname, othernames, phone, address, status);
\* isActive defaults to 1
InsertStudent(d, student) ==
    LET st == d.store
        id == st.seq.students + 1
    IN  Ok(Write(d, [st EXCEPT
             !.students = @ \cup
                 {[id |-> id, firstname |-> student.firstname,
                   othernames |-> student.othernames, phone |-> student.phone,
                   address |-> student.address, isActive |-> TRUE]},
             !.seq.students = id]), id)

\* INSERT INTO departments (name, ...); isActive defaults to 1
InsertDepartment(d, name) ==
    LET st == d.store
        id == st.seq.departments + 1
    IN  Ok(Write(d, [st EXCEPT
             !.departments = @ \cup {[id |-> id, name |-> name, isActive |-> TRUE]},
             !.seq.departments = id]), id)

\* INSERT INTO bill_items (name, amount, departmentId, ...)
InsertBillItem(d, departmentId, amount) ==
    LET st == d.store
        id == st.seq.bill_items + 1
    IN  IF ForeignKeyOk(d, st.departments, departmentId)
        THEN Ok(Write(d, [st EXCEPT
                 !.bill_items = @ \cup {[id |-> id, departmentId |-> departmentId,
                                         amount |-> amount]},
                 !.seq.bill_items = id]), id)
        ELSE Failed(d, "FOREIGN KEY constraint failed")

\* the student_departments rows of one (studentId, departmentId) pair: what
\* UNIQUE(studentId, departmentId) and the WHERE studentId = ? AND
\* departmentId = ? of the enrollment statements look at
EnrollmentRowsNone(st, studentId, departmentId) == {}
EnrollmentRows(st, studentId, departmentId) ==
    {r \in st.student_departments :
        r.studentId = studentId /\ r.departmentId = departmentId}

\* INSERT INTO student_departments (studentId, departmentId, status, isActive)
InsertStudentDepartmentSwapped(d, studentId, departmentId, status, isActive) ==
    LET st == d.store
        id == st.seq.student_departments + 1
    IN  Ok(Write(d, [st EXCEPT
             !.student_departments = @ \cup
                 {[id |-> id, studentId |-> departmentId, departmentId |-> studentId,
                   status |-> status, isActive |-> isActive]},
             !.seq.student_departments = id]), id)

InsertStudentDepartmentBare(d, studentId, departmentId, status, isActive) ==
    LET st == d.store
        id == st.seq.student_departments + 1
    IN  Ok(Write(d, [st EXCEPT
             !.student_departments = @ \cup
                 {[id |-> id, studentId |-> studentId, departmentId |-> departmentId,
                   status |-> status, isActive |-> isActive]},
             !.seq.student_departments = id]), id)

InsertStudentDepartment(d, studentId, departmentId, status, isActive) ==
    LET st == d.store
    IN  IF EnrollmentRows(st, studentId, departmentId) # {}
        THEN Failed(d, "UNIQUE constraint failed")
        ELSE IF /\ ForeignKeyOk(d, st.students, studentId)
                /\ ForeignKeyOk(d, st.departments, departmentId)
        THEN InsertStudentDepartmentBare(d, studentId, departmentId, status, isActive)
        ELSE Failed(d, "FOREIGN KEY constraint failed")

\* ON DELETE CASCADE: with foreign keys ON, deleting a row deletes the rows
\* that reference it; with foreign keys OFF they stay
DeleteBillRows(d, st, ids) ==
    [st EXCEPT
        !.bills = {b \in @ : b.id \notin ids},
        !.bill_item_relations =
            IF d.foreignKeys THEN {r \in @ : r.billId \notin ids} ELSE @,
        !.payments = IF d.foreignKeys THEN {p \in @ : p.billId \notin ids} ELSE @]

DeleteBillItemRows(d, st, ids) ==
    [st EXCEPT
        !.bill_items = {b \in @ : b.id \notin ids},
        !.bill_item_relations =
            IF d.foreignKeys THEN {r \in @ : r.billItemId \notin ids} ELSE @]

DeleteDepartmentRows(d, st, ids) ==
    LET gone == [st EXCEPT
                    !.departments = {x \in @ : x.id \notin ids},
                    !.student_departments =
                        IF d.foreignKeys THEN {e \in @ : e.departmentId \notin ids} ELSE @]
    IN  IF d.foreignKeys
        THEN DeleteBillRows(d,
                 DeleteBillItemRows(d, gone,
                     Ids({b \in st.bill_items : b.departmentId \in ids})),
                 Ids({b \in st.bills : b.departmentId \in ids}))
        ELSE gone

\* DELETE FROM bill_items WHERE departmentId = ?
DeleteBillItemsKept(d, departmentId) == d
DeleteBillItemsAll(d, departmentId) ==
    Write(d, DeleteBillItemRows(d, d.store, Ids(d.store.bill_items)))
DeleteBillItemsWhere(d, departmentId) ==
    Write(d, DeleteBillItemRows(d, d.store,
                 Ids({b \in d.store.bill_items : b.departmentId = departmentId})))

\* UPDATE departments SET name = ?, ... WHERE id = ?
UpdateDepartmentRow(d, id, name) ==
    Write(d, [d.store EXCEPT !.departments =
                 {IF x.id = id THEN [x EXCEPT !.name = name] ELSE x : x \in @}])

----------------------------------------------------------------------------
(* The connection: openDatabase and initDatabase *)

DATABASE_VERSION == 1

\* a database file that was never opened: PRAGMA user_version is 0
FreshFile ==
    [userVersion |-> 0, foreignKeys |-> FALSE, inTxn |-> FALSE,
     store |-> EmptyStore, committed |-> EmptyStore]

\* SQLite.openDatabaseAsync: a new connection to the file.  foreign_keys is a
\* setting of the connection and is OFF on a new one; what an earlier
\* connection left uncommitted is gone.
openDatabaseAsync(d) ==
    [d EXCEPT !.foreignKeys = FALSE, !.inTxn = FALSE, !.store = d.committed]

\* initDatabase: returns at once when the file is at the current version,
\* else turns foreign keys on, creates the tables and sets the version
initDatabase(d) ==
    IF d.userVersion >= DATABASE_VERSION
    THEN d
    ELSE [d EXCEPT !.foreignKeys = TRUE, !.userVersion = DATABASE_VERSION]

openDatabase(d) == initDatabase(openDatabaseAsync(d))

----------------------------------------------------------------------------
(* Calls in flight *)

\* the rows of each table, for the rows a call has written
NoRows == [t \in Tables |-> {}]

\* a slot with no call: the arguments, locals and result of a call are fields
\* of its record.  payload is the record the caller passed (<<>>: none),
\* inserted and removed are the rows the call's statements have added to and
\* taken from the tables so far.
\* The Departments screen's form state after construction and after resetForm:
\* isEditing false, selectedDepartment null (a row with id 0 stands for null),
\* the name field empty and billItems [].  itemsChanged is not state of the
\* screen: it records that addBillItem or removeBillItem ran since the form
\* was opened.
NoForm ==
    [isEditing |-> FALSE, selectedDepartment |-> [id |-> 0, name |-> ""],
     departmentName |-> "", billItems |-> <<>>, itemsChanged |-> FALSE]

IdleOp ==
    [kind |-> "none", pc |-> "idle", outcome |-> "none", thrown |-> "",
     departmentId |-> 0, studentId |-> 0, studentIds |-> <<>>, items |-> <<>>,
     students |-> <<>>, itemRelations |-> <<>>, i |-> 0, j |-> 0,
     successCount |-> 0, billsCreated |-> 0, totalAmount |-> 0, studentTotal |-> 0,
     billId |-> 0, billItemId |-> 0, errors |-> <<>>, again |-> FALSE, faults |-> 0,
     payload |-> <<>>, billItems |-> <<>>, result |-> <<>>,
     inserted |-> NoRows, removed |-> NoRows,
     began |-> FALSE, ended |-> 0, form |-> NoForm,
     pre |-> EmptyStore]

Goto(o, pc) == [o EXCEPT !.pc = pc]
\* the call's promise resolves
Return(o) == [o EXCEPT !.pc = "done", !.outcome = "returned"]
\* the call's promise rejects
Throw(o, message) == [o EXCEPT !.pc = "done", !.outcome = "threw", !.thrown = message]
\* control enters the catch block that ends in ROLLBACK
Catch(o, message) == [o EXCEPT !.pc = "rollback", !.thrown = message]

Step(d, o) == [db |-> d, op |-> o]

\* the call o after a statement that took the tables from before to after:
\* the rows it added and the rows it took away, net of its own earlier writes
Tracked(o, before, after) ==
    [o EXCEPT
        !.inserted = [t \in Tables |->
            (o.inserted[t] \ (before[t] \ after[t]))
                \cup ((after[t] \ before[t]) \ o.removed[t])],
        !.removed = [t \in Tables |->
            (o.removed[t] \ (after[t] \ before[t]))
                \cup ((before[t] \ after[t]) \ o.inserted[t])]]

IoError == "disk I/O error"

----------------------------------------------------------------------------
(* bulkEnroll, lib/operations/enrollments.ts *)

\* the for loop moves to the next studentId, or leaves the loop for COMMIT
bulkEnrollContinue(o) ==
    IF o.i < Len(o.studentIds)
    THEN [o EXCEPT !.i = @ + 1, !.pc = "student"]
    ELSE [o EXCEPT !.pc = "commit"]

bulkEnrollPushError(o, message) ==
    [o EXCEPT !.errors = Append(@, [studentId |-> o.studentIds[o.i], error |-> message])]

\* if (!student) { errors.push(...'Student not found'); continue; }
StudentNotFoundSkipped(o) == bulkEnrollContinue(o)
StudentNotFound(o) == bulkEnrollContinue(bulkEnrollPushError(o, "Student not found"))

\* if (existingEnrollment !== null) { errors.push(...'Already enrolled'); continue; }
AlreadyEnrolled(o) == bulkEnrollContinue(bulkEnrollPushError(o, "Already enrolled"))

\* result.successCount++
Enrolled(o) == bulkEnrollContinue([o EXCEPT !.successCount = @ + 1])

\* if (!department): getFirstAsync found no departments row with that id
DepartmentUnchecked(d, departmentId) == FALSE
DepartmentMissing(d, departmentId) == departmentId \notin Ids(d.store.departments)

\* what bulkEnroll does when the store call it awaits at o.pc rejects
bulkEnrollReject(o, message) ==
    CASE o.pc \in {"student", "existing", "insert"} ->
             bulkEnrollContinue(bulkEnrollPushError(o, message))
      [] o.pc \in {"department", "commit"} -> Catch(o, message)
      [] OTHER -> Throw(o, message)     \* BEGIN is outside the try; so is ROLLBACK

\* one awaited store call of bulkEnroll and the code up to the next one
bulkEnroll(d, o) ==
    CASE o.pc = "begin" ->
             LET r == execBegin(d)
             IN  IF r.ok THEN Step(r.db, Goto(o, "department"))
                 ELSE Step(d, bulkEnrollReject(o, r.error))
      [] o.pc = "department" ->
             IF DepartmentMissing(d, o.departmentId)
             THEN Step(d, Catch(o, "Department not found"))
             ELSE Step(d, bulkEnrollContinue(o))
      [] o.pc = "student" ->
             IF o.studentIds[o.i] \in Ids(d.store.students)
             THEN Step(d, Goto(o, "existing"))
             ELSE Step(d, StudentNotFound(o))
      [] o.pc = "existing" ->
             IF EnrollmentRows(d.store, o.studentIds[o.i], o.departmentId) # {}
             THEN Step(d, AlreadyEnrolled(o))
             ELSE Step(d, Goto(o, "insert"))
      [] o.pc = "insert" ->
             LET r == InsertStudentDepartment(d, o.studentIds[o.i], o.departmentId,
                                              "active", TRUE)
             IN  IF r.ok THEN Step(r.db, Enrolled(o))
                 ELSE Step(d, bulkEnrollReject(o, r.error))
      [] o.pc = "commit" ->
             LET r == execCommit(d)
             IN  IF r.ok THEN Step(r.db, Return(o))
                 ELSE Step(d, bulkEnrollReject(o, r.error))
      [] o.pc = "rollback" ->
             LET r == execRollback(d)
             IN  IF r.ok THEN Step(r.db, Throw(o, o.thrown))
                 ELSE Step(d, bulkEnrollReject(o, r.error))

\* UPDATE student_departments SET isActive = 0, status = "withdrawn" WHERE ...
unenrollStudentHard(d, studentId, departmentId) ==
    Write(d, [d.store EXCEPT !.student_departments =
        @ \ EnrollmentRows(d.store, studentId, departmentId)])
unenrollStudent(d, studentId, departmentId) ==
    LET st == d.store
        hit == EnrollmentRows(st, studentId, departmentId)
    IN  Write(d, [st EXCEPT !.student_departments =
            (@ \ hit) \cup {[r EXCEPT !.isActive = FALSE, !.status = "withdrawn"] : r \in hit}])

\* SELECT students.* FROM students INNER JOIN student_departments ...
\* WHERE student_departments.departmentId = ? AND student_departments.isActive = 1
getEnrollmentsByDepartment(st, departmentId) ==
    {student \in st.students :
        \E e \in st.student_departments :
            e.studentId = student.id /\ e.departmentId = departmentId /\ e.isActive}

\* SELECT departments.* FROM departments INNER JOIN student_departments ...
\* WHERE student_departments.studentId = ? AND student_departments.isActive = 1
getStudentDepartments(st, studentId) ==
    {department \in st.departments :
        \E e \in st.student_departments :
            e.departmentId = department.id /\ e.studentId = studentId /\ e.isActive}

\* unenrollStudent as its caller sees it: return result.changes > 0, the
\* UPDATE counting every row its WHERE clause names; the catch returns false
\* when the store call rejects
unenrollStudentResult(d, o, rejects) ==
    IF rejects
    THEN [db |-> d,
          op |-> [o EXCEPT !.pc = "done", !.outcome = "returned", !.result = FALSE,
                           !.faults = 1]]
    ELSE [db |-> unenrollStudent(d, o.studentId, o.departmentId),
          op |-> [o EXCEPT !.pc = "done", !.outcome = "returned",
                           !.result = EnrollmentRows(d.store, o.studentId,
                                                     o.departmentId) # {}]]

----------------------------------------------------------------------------
(* Bills, lib/operations/bills.ts *)

\* JavaScript's x.f || dflt: the default replaces a missing f and also a 0
OrDefault(x, f, dflt) == IF f \in DOMAIN x /\ x[f] # 0 THEN x[f] ELSE dflt
\* JavaScript's x.f ?? dflt: the default replaces only a missing f
Coalesce(x, f, dflt) == IF f \in DOMAIN x THEN x[f] ELSE dflt

\* INSERT INTO bills (name, studentId, departmentId, totalAmount, ...);
\* the status column defaults to 'pending'
InsertBill(d, studentId, departmentId, totalAmount) ==
    LET st == d.store
        id == st.seq.bills + 1
    IN  IF /\ ForeignKeyOk(d, st.students, studentId)
           /\ ForeignKeyOk(d, st.departments, departmentId)
        THEN Ok(Write(d, [st EXCEPT
                 !.bills = @ \cup {[id |-> id, studentId |-> studentId,
                                    departmentId |-> departmentId,
                                    totalAmount |-> totalAmount, status |-> "pending",
                                    isActive |-> TRUE]},
                 !.seq.bills = id]), id)
        ELSE Failed(d, "FOREIGN KEY constraint failed")

\* INSERT INTO bill_item_relations (billId, billItemId, amount, quantity, discount)
InsertBillItemRelation(d, billId, billItemId, amount, quantity, discount) ==
    LET st == d.store
        id == st.seq.bill_item_relations + 1
    IN  IF /\ ForeignKeyOk(d, st.bills, billId)
           /\ ForeignKeyOk(d, st.bill_items, billItemId)
        THEN Ok(Write(d, [st EXCEPT
                 !.bill_item_relations = @ \cup
                     {[id |-> id, billId |-> billId, billItemId |-> billItemId,
                       amount |-> amount, quantity |-> quantity, discount |-> discount]},
                 !.seq.bill_item_relations = id]), id)
        ELSE Failed(d, "FOREIGN KEY constraint failed")

\* UPDATE bills SET totalAmount = ? WHERE id = ?
UpdateBillTotalSkipped(d, billId, totalAmount) == d
UpdateBillTotal(d, billId, totalAmount) ==
    LET st == d.store
    IN  Write(d, [st EXCEPT !.bills =
            {IF b.id = billId THEN [b EXCEPT !.totalAmount = totalAmount] ELSE b : b \in @}])

(* createBillWithItems *)

\* const quantity = item.quantity || 1
ItemQuantity(item) == OrDefault(item, "quantity", 1)
\* const itemAmount = item.amount || 0
ItemAmount(item) == OrDefault(item, "amount", 0)
\* const discount = item.discount || 0
ItemDiscount(item) == OrDefault(item, "discount", 0)
\* totalAmount += (itemAmount * quantity) - discount
ItemTotal(item) == (ItemAmount(item) * ItemQuantity(item)) - ItemDiscount(item)

createBillWithItemsContinue(o) ==
    IF o.j < Len(o.items)
    THEN [o EXCEPT !.j = @ + 1, !.pc = "item"]
    ELSE [o EXCEPT !.pc = "update"]

\* every store call, BEGIN included, is inside the try; ROLLBACK is in the catch
createBillWithItemsReject(o, message) ==
    IF o.pc = "rollback" THEN Throw(o, message) ELSE Catch(o, message)

\* one awaited store call of createBillWithItems and the code up to the next one
createBillWithItems(d, o) ==
    CASE o.pc = "begin" ->
             LET r == execBegin(d)
             IN  IF r.ok THEN Step(r.db, Goto(o, "bill"))
                 ELSE Step(d, createBillWithItemsReject(o, r.error))
      [] o.pc = "bill" ->
             LET r == InsertBill(d, o.studentId, o.departmentId, 0)
             IN  IF r.ok
                 THEN Step(r.db, createBillWithItemsContinue(
                                     [o EXCEPT !.billId = r.lastInsertRowId]))
                 ELSE Step(d, createBillWithItemsReject(o, r.error))
      [] o.pc = "item" ->
             LET item == o.items[o.j]
                 r == InsertBillItemRelation(d, o.billId, item.billItemId,
                          ItemAmount(item), ItemQuantity(item), ItemDiscount(item))
             IN  IF r.ok
                 THEN Step(r.db, createBillWithItemsContinue(
                                     [o EXCEPT !.totalAmount = @ + ItemTotal(item)]))
                 ELSE Step(d, createBillWithItemsReject(o, r.error))
      [] o.pc = "update" ->
             Step(UpdateBillTotal(d, o.billId, o.totalAmount), Goto(o, "commit"))
      [] o.pc = "commit" ->
             LET r == execCommit(d)
             IN  IF r.ok THEN Step(r.db, Return(o))
                 ELSE Step(d, createBillWithItemsReject(o, r.error))
      [] o.pc = "rollback" ->
             LET r == execRollback(d)
             IN  IF r.ok THEN Step(r.db, Throw(o, o.thrown))
                 ELSE Step(d, createBillWithItemsReject(o, r.error))

(* createBillsForDepartment *)

\* the students the SELECT ... JOIN returns, as the array the loop walks
RECURSIVE SortedSeq(_)
SortedSeq(S) ==
    IF S = {} THEN <<>>
    ELSE LET m == CHOOSE x \in S : \A y \in S : x <= y
         IN  <<m>> \o SortedSeq(S \ {m})

ActiveStudentsOf(st, departmentId) ==
    SortedSeq({r.studentId : r \in {e \in st.student_departments :
                   e.departmentId = departmentId /\ e.isActive}}
              \cap Ids(st.students))

\* the next student of the for loop, or COMMIT after the last
createBillsNextStudent(o) ==
    IF o.i < Len(o.students)
    THEN [o EXCEPT !.i = @ + 1, !.j = 0, !.studentTotal = 0, !.itemRelations = <<>>,
                   !.pc = "resolve"]
    ELSE [o EXCEPT !.pc = "commit"]

\* the per-student catch: errors.push({studentId, error}) and on to the next student
createBillsStudentFailed(o, message) ==
    createBillsNextStudent(
        [o EXCEPT !.errors = Append(@, [studentId |-> o.students[o.i], error |-> message])])

\* result.billsCreated++; result.totalAmount += studentTotal
createBillsStudentBilled(o) ==
    createBillsNextStudent(
        [o EXCEPT !.billsCreated = @ + 1, !.totalAmount = @ + o.studentTotal])

createBillsForDepartmentReject(o, message) ==
    CASE o.pc \in {"resolve", "bill", "relation"} -> createBillsStudentFailed(o, message)
      [] o.pc \in {"department", "students", "commit"} -> Catch(o, message)
      [] OTHER -> Throw(o, message)     \* BEGIN is outside the try; so is ROLLBACK

\* studentTotal += Number(amount) * Number(quantity); itemRelations.push(...)
createBillsResolved(o, item, amount) ==
    LET quantity == Coalesce(item, "quantity", 1)
    IN  [o EXCEPT !.studentTotal = @ + amount * quantity,
                  !.itemRelations = Append(@, [billItemId |-> item.billItemId,
                                               amount |-> amount, quantity |-> quantity])]

\* one awaited store call of createBillsForDepartment and the code up to the next one
createBillsForDepartment(d, o) ==
    CASE o.pc = "begin" ->
             LET r == execBegin(d)
             IN  IF r.ok THEN Step(r.db, Goto(o, "department"))
                 ELSE Step(d, createBillsForDepartmentReject(o, r.error))
      [] o.pc = "department" ->
             IF o.departmentId \in Ids(d.store.departments)
             THEN Step(d, Goto(o, "students"))
             ELSE Step(d, Catch(o, "Department not found"))
      [] o.pc = "students" ->
             \* ... FROM students s JOIN studentDepartments sd ...
             IF TableExists("students") /\ TableExists("studentDepartments")
             THEN Step(d, createBillsNextStudent(
                              [o EXCEPT !.students =
                                   ActiveStudentsOf(d.store, o.departmentId)]))
             ELSE Step(d, createBillsForDepartmentReject(o, "no such table"))
      [] o.pc = "resolve" ->
             \* the loop over billItems: one requested item per step
             IF o.j >= Len(o.items)
             THEN Step(d, Goto(o, "bill"))
             ELSE LET item == o.items[o.j + 1]
                      found == {b \in d.store.bill_items : b.id = item.billItemId}
                      next == [o EXCEPT !.j = @ + 1]
                  IN  IF "amount" \in DOMAIN item
                      THEN Step(d, createBillsResolved(next, item, item.amount))
                      \* SELECT amount FROM billItems WHERE id = ?
                      ELSE IF ~TableExists("billItems")
                      THEN Step(d, createBillsForDepartmentReject(o, "no such table"))
                      ELSE IF found = {}
                      THEN Step(d, createBillsForDepartmentReject(o, "BillItem not found"))
                      ELSE Step(d, createBillsResolved(next, item,
                                       (CHOOSE b \in found : TRUE).amount))
      [] o.pc = "bill" ->
             LET r == InsertBill(d, o.students[o.i], o.departmentId, o.studentTotal)
             IN  IF r.ok
                 THEN Step(r.db, [o EXCEPT !.billId = r.lastInsertRowId, !.j = 0,
                                           !.pc = "relation"])
                 ELSE Step(d, createBillsForDepartmentReject(o, r.error))
      [] o.pc = "relation" ->
             \* INSERT INTO billItemRelations (billId, billItemId, amount, quantity)
             IF o.j >= Len(o.itemRelations)
             THEN Step(d, createBillsStudentBilled(o))
             ELSE IF ~TableExists("billItemRelations")
             THEN Step(d, createBillsForDepartmentReject(o, "no such table"))
             ELSE LET rel == o.itemRelations[o.j + 1]
                      r == InsertBillItemRelation(d, o.billId, rel.billItemId,
                                                  rel.amount, rel.quantity, 0)
                  IN  IF r.ok THEN Step(r.db, [o EXCEPT !.j = @ + 1])
                      ELSE Step(d, createBillsForDepartmentReject(o, r.error))
      [] o.pc = "commit" ->
             LET r == execCommit(d)
             IN  IF r.ok THEN Step(r.db, Return(o))
                 ELSE Step(d, createBillsForDepartmentReject(o, r.error))
      [] o.pc = "rollback" ->
             LET r == execRollback(d)
             IN  IF r.ok THEN Step(r.db, Throw(o, o.thrown))
                 ELSE Step(d, createBillsForDepartmentReject(o, r.error))

----------------------------------------------------------------------------
(* Departments with their bill items, lib/operations/students.ts *)

\* the bill items of a payload: none when billItems is left out
PayloadBillItems(payload) ==
    IF "billItems" \in DOMAIN payload THEN payload.billItems ELSE <<>>

\* the for loop over billItems moves to the next item, or leaves for COMMIT
departmentItemsContinue(o) ==
    IF o.j < Len(PayloadBillItems(o.payload))
    THEN [o EXCEPT !.j = @ + 1, !.pc = "item"]
    ELSE [o EXCEPT !.pc = "commit"]

\* BEGIN is before the try, ROLLBACK in the catch: an error of either leaves
\* the function at once; any other error enters the catch
createDepartmentRejectNoRollback(o, message) == Throw(o, message)
createDepartmentReject(o, message) ==
    IF o.pc \in {"begin", "rollback"} THEN Throw(o, message) ELSE Catch(o, message)

\* one awaited store call of createDepartment and the code up to the next one
createDepartment(d, o) ==
    CASE o.pc = "begin" ->
             LET r == execBegin(d)
             IN  IF r.ok THEN Step(r.db, Goto(o, "department"))
                 ELSE Step(d, createDepartmentReject(o, r.error))
      [] o.pc = "department" ->
             LET r == InsertDepartment(d, o.payload.name)
             IN  IF r.ok
                 THEN Step(r.db, departmentItemsContinue(
                                     [o EXCEPT !.departmentId = r.lastInsertRowId,
                                               !.totalAmount = 0]))
                 ELSE Step(d, createDepartmentReject(o, r.error))
      [] o.pc = "item" ->
             \* addBillItem(db, {...item, departmentId})
             LET item == o.payload.billItems[o.j]
                 r == InsertBillItem(d, o.departmentId, item.amount)
             IN  IF r.ok
                 THEN Step(r.db, departmentItemsContinue(
                          [o EXCEPT !.billItems = Append(@, [id |-> r.lastInsertRowId,
                                                             departmentId |-> o.departmentId,
                                                             amount |-> item.amount]),
                                    !.totalAmount = @ + item.amount]))
                 ELSE Step(d, createDepartmentReject(o, r.error))
      [] o.pc = "commit" ->
             LET r == execCommit(d)
             IN  IF r.ok THEN Step(r.db, Return(o))
                 ELSE Step(d, createDepartmentReject(o, r.error))
      [] o.pc = "rollback" ->
             LET r == execRollback(d)
             IN  IF r.ok THEN Step(r.db, Throw(o, o.thrown))
                 ELSE Step(d, createDepartmentReject(o, r.error))

\* if (!department.id): the id is left out
IdMissing(payload) == "id" \notin DOMAIN payload

updateDepartmentReject(o, message) ==
    IF o.pc \in {"begin", "rollback"} THEN Throw(o, message) ELSE Catch(o, message)

\* one awaited store call of updateDepartment and the code up to the next one
updateDepartment(d, o) ==
    CASE o.pc = "begin" ->
             IF IdMissing(o.payload)
             THEN Step(d, Throw(o, "Department ID is required for update"))
             ELSE LET r == execBegin(d)
                  IN  IF r.ok THEN Step(r.db, Goto(o, "department"))
                      ELSE Step(d, updateDepartmentReject(o, r.error))
      [] o.pc = "department" ->
             Step(UpdateDepartmentRow(d, o.payload.id, o.payload.name),
                  \* if (department.billItems): an empty array counts as given
                  IF "billItems" \in DOMAIN o.payload
                  THEN Goto(o, "delete") ELSE Goto(o, "commit"))
      [] o.pc = "delete" ->
             Step(DeleteBillItemsWhere(d, o.payload.id), departmentItemsContinue(o))
      [] o.pc = "item" ->
             \* addBillItem(db, {..., departmentId: department.id})
             LET item == o.payload.billItems[o.j]
                 r == InsertBillItem(d, o.payload.id, item.amount)
             IN  IF r.ok THEN Step(r.db, departmentItemsContinue(o))
                 ELSE Step(d, updateDepartmentReject(o, r.error))
      [] o.pc = "commit" ->
             LET r == execCommit(d)
             IN  IF r.ok THEN Step(r.db, Return(o))
                 ELSE Step(d, updateDepartmentReject(o, r.error))
      [] o.pc = "rollback" ->
             LET r == execRollback(d)
             IN  IF r.ok THEN Step(r.db, Throw(o, o.thrown))
                 ELSE Step(d, updateDepartmentReject(o, r.error))

----------------------------------------------------------------------------
(* Update and delete by id, lib/operations/bills.ts and students.ts *)

\* the call returns value
ReturnValue(o, value) == [Return(o) EXCEPT !.result = value]

\* updateBill: UPDATE bills SET ..., totalAmount = ?, ... WHERE id = ?
updateBill(d, o) ==
    IF IdMissing(o.payload)
    THEN Step(d, Throw(o, "Bill ID is required for update"))
    ELSE LET hit == {b \in d.store.bills : b.id = o.payload.id}
         IN  Step(Write(d, [d.store EXCEPT !.bills =
                      (@ \ hit) \cup {[b EXCEPT !.totalAmount = o.payload.totalAmount] :
                                          b \in hit}]),
                  ReturnValue(o, hit # {}))

\* updateBillItem: UPDATE bill_items SET ..., amount = ?, ... WHERE id = ?, the
\* id passed as billItem.id! with no check.  A record without an id binds
\* undefined: the driver binds NULL, which no row's id equals (bound), or
\* refuses the parameter.
updateBillItem(d, o, bound) ==
    IF IdMissing(o.payload)
    THEN IF bound THEN Step(d, ReturnValue(o, o.payload))
         ELSE Step(d, Throw(o, "cannot bind undefined"))
    ELSE LET hit == {b \in d.store.bill_items : b.id = o.payload.id}
         IN  Step(Write(d, [d.store EXCEPT !.bill_items =
                      (@ \ hit) \cup {[b EXCEPT !.amount = o.payload.amount] : b \in hit}]),
                  ReturnValue(o, o.payload))

\* deleteDepartment: DELETE FROM departments WHERE id = ?
deleteDepartment(d, o) ==
    Step(Write(d, DeleteDepartmentRows(d, d.store, {o.departmentId})),
         ReturnValue(o, o.departmentId \in Ids(d.store.departments)))

\* deleteBill: DELETE FROM bills WHERE id = ?
deleteBill(d, o) ==
    Step(Write(d, DeleteBillRows(d, d.store, {o.billId})),
         ReturnValue(o, o.billId \in Ids(d.store.bills)))

\* deleteBillItem: DELETE FROM bill_items WHERE id = ?
deleteBillItem(d, o) ==
    Step(Write(d, DeleteBillItemRows(d, d.store, {o.billItemId})), Return(o))

----------------------------------------------------------------------------
(* Students, lib/operations/students.ts *)

\* rows in the order of key, which gives each row a number
RECURSIVE OrderedBy(_, _)
OrderedBy(rows, key) ==
    IF rows = {} THEN <<>>
    ELSE LET first == CHOOSE r \in rows : \A q \in rows : key[r] <= key[q]
         IN  <<first>> \o OrderedBy(rows \ {first}, key)

\* a SELECT with no ORDER BY walks the table in the order of its rowid
ById(rows) == OrderedBy(rows, [r \in rows |-> r.id])
\* ORDER BY firstname; rows of one name in the order of their rowid
NameRank(name) == IF name = "Ama" THEN 1 ELSE 2
ByFirstname(rows) ==
    OrderedBy(rows, [r \in rows |-> NameRank(r.firstname) * (MaxStudents + 2) + r.id])

\* addStudent, addDepartment and addBillItem as their caller sees them: one
\* INSERT, then return {id: result.lastInsertRowId, ...}; the catch rethrows
Inserted(o, r) ==
    IF r.ok THEN Step(r.db, ReturnValue(o, r.lastInsertRowId))
    ELSE Step(r.db, Throw(o, r.error))
addStudent(d, o) == Inserted(o, InsertStudent(d, o.payload))
addDepartment(d, o) == Inserted(o, InsertDepartment(d, o.payload.name))
addBillItem(d, o) == Inserted(o, InsertBillItem(d, o.payload.departmentId, o.payload.amount))

\* updateStudent: UPDATE students SET firstname = ?, ... WHERE id = ?
updateStudent(d, o) ==
    IF IdMissing(o.payload)
    THEN Step(d, Throw(o, "Student ID is required for update"))
    ELSE LET hit == {r \in d.store.students : r.id = o.payload.id}
         IN  Step(Write(d, [d.store EXCEPT !.students =
                      (@ \ hit) \cup {[r EXCEPT !.firstname = o.payload.firstname] : r \in hit}]),
                  ReturnValue(o, hit # {}))

\* deleteStudent: UPDATE students SET isActive = 0 WHERE id = ?
deleteStudent(d, o) ==
    LET hit == {r \in d.store.students : r.id = o.studentId}
    IN  Step(Write(d, [d.store EXCEPT !.students =
                 (@ \ hit) \cup {[r EXCEPT !.isActive = FALSE] : r \in hit}]),
             ReturnValue(o, hit # {}))

\* getAllStudents: SELECT * FROM students ORDER BY firstname
getAllStudents(d, o) ==
    Step(d, ReturnValue(o, ByFirstname(d.store.students)))

(* searchStudents *)

\* const { searchOptions, pagination, includeInactive = false } = options
IncludeInactive(options) == Coalesce(options, "includeInactive", FALSE)

\* the texts of the model, letter by letter
Spelling ==
    ("" :> <<>>) @@ (" " :> <<" ">>) @@ ("k" :> <<"k">>) @@ ("of" :> <<"o", "f">>)
        @@ ("cc" :> <<"c", "c">>)
        @@ ("Ama" :> <<"A", "m", "a">>) @@ ("Kofi" :> <<"K", "o", "f", "i">>)
        @@ ("Mensah" :> <<"M", "e", "n", "s", "a", "h">>)
        @@ ("024" :> <<"0", "2", "4">>) @@ ("Accra" :> <<"A", "c", "c", "r", "a">>)

UpperCase ==
    <<"A", "B", "C", "D", "E", "F", "G", "H", "I", "J", "K", "L", "M",
      "N", "O", "P", "Q", "R", "S", "T", "U", "V", "W", "X", "Y", "Z">>
LowerCase ==
    <<"a", "b", "c", "d", "e", "f", "g", "h", "i", "j", "k", "l", "m",
      "n", "o", "p", "q", "r", "s", "t", "u", "v", "w", "x", "y", "z">>

\* LIKE compares ASCII letters without regard to case
Lower(c) ==
    IF \E i \in 1..Len(UpperCase) : UpperCase[i] = c
    THEN LowerCase[CHOOSE i \in 1..Len(UpperCase) : UpperCase[i] = c]
    ELSE c

\* String.prototype.trim
RECURSIVE TrimStart(_)
TrimStart(q) == IF q # <<>> /\ Head(q) = " " THEN TrimStart(Tail(q)) ELSE q
RECURSIVE TrimEnd(_)
TrimEnd(q) ==
    IF q # <<>> /\ q[Len(q)] = " " THEN TrimEnd(SubSeq(q, 1, Len(q) - 1)) ELSE q
Trim(q) == TrimEnd(TrimStart(q))

\* text LIKE pattern: % stands for any letters, _ for any one letter
RECURSIVE Like(_, _)
Like(text, pattern) ==
    IF pattern = <<>> THEN text = <<>>
    ELSE IF Head(pattern) = "%"
    THEN Like(text, Tail(pattern)) \/ (text # <<>> /\ Like(Tail(text), pattern))
    ELSE /\ text # <<>>
         /\ Head(pattern) = "_" \/ Lower(Head(text)) = Lower(Head(pattern))
         /\ Like(Tail(text), Tail(pattern))

\* buildSearchConditions: the conditions it builds, as they hold of the row r
buildSearchConditions(searchOptions, r) ==
    LET searchQuery == Trim(Spelling[searchOptions.query])
        likeParam == <<"%">> \o searchQuery \o <<"%">>
    IN  /\ searchQuery # <<>> =>
               \E field \in {"firstname", "othernames", "phone", "address"} :
                   Like(Spelling[r[field]], likeParam)
        /\ "filters" \in DOMAIN searchOptions =>
               \A field \in DOMAIN searchOptions.filters :
                   searchOptions.filters[field] # "" =>
                       r[field] = searchOptions.filters[field]

\* SELECT * FROM students [WHERE isActive = 1 [AND conditions]]; the
\* conditions are built only if (searchOptions && searchOptions.query)
SearchMatches(st, options) ==
    {r \in st.students :
        /\ IncludeInactive(options) \/ r.isActive
        /\ "searchOptions" \in DOMAIN options /\ options.searchOptions.query # "" =>
               buildSearchConditions(options.searchOptions, r)}

\* [ORDER BY sortBy direction], the direction (sortOrder || 'asc')
SearchOrder(rows, options) ==
    IF "searchOptions" \in DOMAIN options /\ "sortBy" \in DOMAIN options.searchOptions
    THEN IF Coalesce(options.searchOptions, "sortOrder", "asc") = "asc"
         THEN ByFirstname(rows)
         ELSE OrderedBy(rows, [r \in rows |->
                  (0 - NameRank(r.firstname)) * (MaxStudents + 2) + r.id])
    ELSE ById(rows)

\* LIMIT ? OFFSET ?: a negative LIMIT is no limit, a negative OFFSET is 0
LimitNoOffset(rows, limit, offset) ==
    SubSeq(rows, 1, IF limit < 0 \/ limit > Len(rows) THEN Len(rows) ELSE limit)
Limit(rows, limit, offset) ==
    LET from == IF offset < 0 THEN 0 ELSE offset
        upto == IF limit < 0 \/ from + limit > Len(rows) THEN Len(rows) ELSE from + limit
    IN  SubSeq(rows, from + 1, upto)

\* Math.ceil(total / pageSize): Infinity or NaN when pageSize is 0
TotalPages(total, pageSize) ==
    IF pageSize > 0 THEN (total + pageSize - 1) \div pageSize
    ELSE IF pageSize < 0 THEN 0 - (total \div (0 - pageSize))
    ELSE IF total > 0 THEN "Infinity" ELSE "NaN"

\* one awaited store call of searchStudents and the code up to the next one
searchStudents(d, o) ==
    LET options == o.payload
        rows == SearchOrder(SearchMatches(d.store, options), options)
    IN  CASE o.pc = "query" ->
                 IF "pagination" \in DOMAIN options
                 THEN LET page == options.pagination.page
                          pageSize == options.pagination.pageSize
                          offset == (page - 1) * pageSize
                      IN  Step(d, [o EXCEPT !.students = Limit(rows, pageSize, offset),
                                            !.pc = "count"])
                 ELSE Step(d, ReturnValue(o, [data |-> rows, total |-> Len(rows),
                                              page |-> 1, pageSize |-> Len(rows),
                                              totalPages |-> 1]))
          [] o.pc = "count" ->
                 \* SELECT COUNT(*) as total FROM students [WHERE isActive = 1]
                 LET total == Len(rows)
                     pageSize == options.pagination.pageSize
                 IN  Step(d, ReturnValue(o, [data |-> o.students, total |-> total,
                                             page |-> options.pagination.page,
                                             pageSize |-> pageSize,
                                             totalPages |-> TotalPages(total, pageSize)]))

----------------------------------------------------------------------------
(* Billing summaries, the queries of lib/db/schema.ts *)

\* Payment.status
PaymentStatuses == {"completed", "pending", "failed", "refunded"}

MaxSummaryBills == 2    \* bills rows a summary is taken over
MaxPayments == 2        \* payments rows a summary is taken over
Instalment == 30        \* the amount of a payment

\* The bills table holding the rows q describes, in the order of their ids:
\* bills of student 1 in department 1
BillRows(q) ==
    {[id |-> k, studentId |-> 1, departmentId |-> 1, totalAmount |-> q[k].totalAmount,
      status |-> "pending", isActive |-> q[k].isActive] : k \in 1..Len(q)}

\* the payments table holding the rows q describes
PaymentRows(q) ==
    {[id |-> k, billId |-> q[k].billId, studentId |-> 1, amount |-> q[k].amount,
      status |-> q[k].status, isActive |-> q[k].isActive] : k \in 1..Len(q)}

\* No operation of the application writes a payments row and none runs the
\* summary queries: the queries are functions of the tables' rows.  The tables
\* they are applied to: one student, one department, up to MaxSummaryBills
\* bills and up to MaxPayments payments of those bills.
SummaryStores ==
    LET base == InsertDepartment(InsertStudent(openDatabase(FreshFile),
                                               CHOOSE student \in NewStudents : TRUE).db,
                                 "Form1").db.store
    IN  {[base EXCEPT !.bills = BillRows(b), !.seq.bills = Len(b),
                      !.payments = PaymentRows(p), !.seq.payments = Len(p)] :
            b \in SeqsUpTo([totalAmount : BillItemAmounts, isActive : BOOLEAN],
                           MaxSummaryBills),
            p \in SeqsUpTo([billId : 1..MaxSummaryBills, amount : {Instalment},
                            status : PaymentStatuses, isActive : BOOLEAN],
                           MaxPayments)}

\* the p columns of a bill that no payments row joins: NULL, which SUM skips
NoPayment == [id |-> 0, amount |-> 0]

\* bills b LEFT JOIN payments p ON b.id = p.billId AND p.status = 'completed'
LeftJoinPayments(st, bills) ==
    UNION {LET joined == {p \in st.payments : p.billId = b.id /\ p.status = "completed"}
           IN  IF joined = {} THEN {[b |-> b, p |-> NoPayment]}
               ELSE {[b |-> b, p |-> [id |-> p.id, amount |-> p.amount]] : p \in joined}
           : b \in bills}

\* SUM(column) over the rows of a group; column is a function of the row
RECURSIVE Sum(_, _)
Sum(rows, column) ==
    IF rows = {} THEN 0
    ELSE LET r == CHOOSE x \in rows : TRUE
         IN  column[r] + Sum(rows \ {r}, column)

\* SUM(b.totalAmount), COALESCE(SUM(p.amount), 0) and their difference
SummaryTotals(st, bills) ==
    LET joined == LeftJoinPayments(st, bills)
        billed == Sum(joined, [r \in joined |-> r.b.totalAmount])
        paid == Sum(joined, [r \in joined |-> r.p.amount])
    IN  [totalBilled |-> billed, totalPaid |-> paid, totalUnpaid |-> billed - paid]

\* queries.getBillingSummaryForStudent: one row per department the student
\* has an active bill in
getBillingSummaryForStudent(st, studentId) ==
    LET bills == {b \in st.bills :
                     /\ b.studentId = studentId /\ b.isActive
                     /\ \E student \in st.students : student.id = studentId /\ student.isActive
                     /\ b.departmentId \in Ids(st.departments)}
    IN  {LET t == SummaryTotals(st, {b \in bills : b.departmentId = departmentId})
         IN  [studentId |-> studentId, departmentId |-> departmentId,
              totalBilled |-> t.totalBilled, totalPaid |-> t.totalPaid,
              totalUnpaid |-> t.totalUnpaid]
         : departmentId \in {b.departmentId : b \in bills}}

\* queries.getBillingSummaryForDepartment: one row, or none when the
\* department has no active bill
getBillingSummaryForDepartment(st, departmentId) ==
    LET bills == {b \in st.bills :
                     /\ b.departmentId = departmentId /\ b.isActive
                     /\ \E d \in st.departments : d.id = departmentId /\ d.isActive}
        t == SummaryTotals(st, bills)
    IN  IF bills = {} THEN {}
        ELSE {[departmentId |-> departmentId,
               totalStudents |-> Cardinality({b.studentId : b \in bills}),
               totalBilled |-> t.totalBilled, totalPaid |-> t.totalPaid,
               totalUnpaid |-> t.totalUnpaid]}

----------------------------------------------------------------------------
(* Actions *)

Idle(s) == ops[s].pc = "idle"
NoneInFlight == \A s \in Slots : Idle(s)

\* the call o after a statement that took the connection from before to
\* after: whether its BEGIN opened a transaction, and how many of its COMMIT
\* and ROLLBACK statements ended one
Transacted(o, before, after) ==
    [o EXCEPT !.began = @ \/ (~before.inTxn /\ after.inTxn),
              !.ended = IF before.inTxn /\ ~after.inTxn THEN @ + 1 ELSE @]

\* the call in slot s takes the step r; BEGIN, COMMIT and ROLLBACK write no row
Advance(s, r) ==
    /\ db' = r.db
    /\ ops' = [ops EXCEPT ![s] =
                 IF ops[s].pc \in {"begin", "commit", "rollback"}
                 THEN Transacted(r.op, db, r.db)
                 ELSE Tracked(r.op, db.store, r.db.store)]

Init ==
    /\ db = openDatabase(FreshFile)
    /\ ops = [s \in Slots |-> IdleOp]

\* the application is started again: a new connection to the same file
Reopen ==
    /\ NoneInFlight
    /\ db' = openDatabase(db)
    /\ UNCHANGED ops

AddStudent ==
    /\ db.store.seq.students < MaxStudents
    /\ \E student \in NewStudents : db' = InsertStudent(db, student).db
    /\ UNCHANGED ops

AddDepartment ==
    /\ db.store.seq.departments < MaxDepartments
    /\ \E department \in NewDepartments : db' = InsertDepartment(db, department.name).db
    /\ UNCHANGED ops

AddBillItem ==
    /\ db.store.seq.bill_items < MaxBillItems
    /\ \E departmentId \in 1..MaxDepartments, amount \in BillItemAmounts :
          db' = InsertBillItem(db, departmentId, amount).db
    /\ UNCHANGED ops

UnenrollStudent ==
    /\ \E studentId \in StudentIdArgs, departmentId \in DepartmentIdArgs :
          db' = unenrollStudent(db, studentId, departmentId)
    /\ UNCHANGED ops

BulkEnrollCall(s) ==
    /\ Idle(s)
    /\ \E departmentId \in DepartmentIdArgs, studentIds \in StudentIdLists :
          ops' = [ops EXCEPT ![s] =
                    [IdleOp EXCEPT !.kind = "bulkEnroll", !.pc = "begin",
                                   !.departmentId = departmentId,
                                   !.studentIds = studentIds,
                                   !.pre = db.committed]]
    /\ UNCHANGED db

\* the caller repeats the call it has just made, with the same arguments
BulkEnrollAgain(s) ==
    /\ ops[s].pc = "done" /\ ops[s].kind = "bulkEnroll" /\ ~ops[s].again
    /\ ops' = [ops EXCEPT ![s] =
                 [IdleOp EXCEPT !.kind = "bulkEnroll", !.pc = "begin",
                                !.departmentId = ops[s].departmentId,
                                !.studentIds = ops[s].studentIds,
                                !.again = TRUE,
                                !.pre = db.committed]]
    /\ UNCHANGED db

BulkEnrollStep(s) ==
    /\ ops[s].kind = "bulkEnroll" /\ ops[s].pc \notin {"idle", "done"}
    /\ Advance(s, bulkEnroll(db, ops[s]))

CreateBillWithItemsCall(s) ==
    /\ Idle(s)
    /\ db.store.seq.bills < MaxBills
    /\ \E studentId \in BillStudentIdArgs, departmentId \in 1..MaxDepartments,
          items \in ItemLists :
          ops' = [ops EXCEPT ![s] =
                    [IdleOp EXCEPT !.kind = "createBillWithItems", !.pc = "begin",
                                   !.studentId = studentId,
                                   !.departmentId = departmentId,
                                   !.items = items,
                                   !.pre = db.committed]]
    /\ UNCHANGED db

CreateBillWithItemsStep(s) ==
    /\ ops[s].kind = "createBillWithItems" /\ ops[s].pc \notin {"idle", "done"}
    /\ Advance(s, createBillWithItems(db, ops[s]))

CreateBillsForDepartmentCall(s) ==
    /\ Idle(s)
    /\ db.store.seq.bills <= MaxBills
    /\ \E departmentId \in DepartmentIdArgs, items \in BillRequests :
          ops' = [ops EXCEPT ![s] =
                    [IdleOp EXCEPT !.kind = "createBillsForDepartment", !.pc = "begin",
                                   !.departmentId = departmentId,
                                   !.items = items,
                                   !.pre = db.committed]]
    /\ UNCHANGED db

CreateDepartmentCall(s) ==
    /\ Idle(s)
    /\ db.store.seq.departments < MaxDepartments
    /\ \E payload \in CreateDepartmentPayloads :
          /\ db.store.seq.bill_items + Len(PayloadBillItems(payload)) <= MaxBillItems
          /\ ops' = [ops EXCEPT ![s] =
                       [IdleOp EXCEPT !.kind = "createDepartment", !.pc = "begin",
                                      !.payload = payload,
                                      !.pre = db.committed]]
    /\ UNCHANGED db

CreateDepartmentStep(s) ==
    /\ ops[s].kind = "createDepartment" /\ ops[s].pc \notin {"idle", "done"}
    /\ Advance(s, createDepartment(db, ops[s]))

UpdateDepartmentCall(s) ==
    /\ Idle(s)
    /\ \E payload \in UpdateDepartmentPayloads :
          /\ db.store.seq.bill_items + Len(PayloadBillItems(payload)) <= MaxBillItems
          /\ ops' = [ops EXCEPT ![s] =
                       [IdleOp EXCEPT !.kind = "updateDepartment", !.pc = "begin",
                                      !.payload = payload,
                                      !.pre = db.committed]]
    /\ UNCHANGED db

UpdateDepartmentStep(s) ==
    /\ ops[s].kind = "updateDepartment" /\ ops[s].pc \notin {"idle", "done"}
    /\ Advance(s, updateDepartment(db, ops[s]))

CreateBillsForDepartmentStep(s) ==
    /\ ops[s].kind = "createBillsForDepartment" /\ ops[s].pc \notin {"idle", "done"}
    /\ Advance(s, createBillsForDepartment(db, ops[s]))

\* an operation of one store call, called and settled in one step
Call(kind) == [IdleOp EXCEPT !.kind = kind, !.pc = "begin", !.pre = db.committed]

\* addStudent, addDepartment and addBillItem called for their result
AddStudentCall(s) ==
    /\ Idle(s)
    /\ db.store.seq.students < MaxStudents
    /\ \E student \in NewStudents :
          Advance(s, addStudent(db, [Call("addStudent") EXCEPT !.payload = student]))

AddDepartmentCall(s) ==
    /\ Idle(s)
    /\ db.store.seq.departments < MaxDepartments
    /\ \E department \in NewDepartments :
          Advance(s, addDepartment(db, [Call("addDepartment") EXCEPT !.payload = department]))

AddBillItemCall(s) ==
    /\ Idle(s)
    /\ db.store.seq.bill_items < MaxBillItems
    /\ \E departmentId \in 1..MaxDepartments, amount \in BillItemAmounts :
          Advance(s, addBillItem(db, [Call("addBillItem") EXCEPT
              !.payload = [departmentId |-> departmentId, amount |-> amount]]))

\* The Departments screen.  A slot at pc "form" has the modal open.

\* getAllDepartments: SELECT * FROM departments ORDER BY name
getAllDepartments(st) == st.departments

\* what is typed into an amount field, and Number() of it where that is a number
FormAmounts == {"abc", "50"}
FormNames == {"Fees"}
Number == ("" :> 0) @@ ("50" :> 50)
isNaN(text) == text \notin DOMAIN Number

\* {...a, ...b}
Spread(a, b) ==
    [f \in DOMAIN a \cup DOMAIN b |-> IF f \in DOMAIN b THEN b[f] ELSE a[f]]

\* handleEdit: sets selectedDepartment, the name field and isEditing, and
\* opens the modal; it does not assign billItems
HandleEdit(s) ==
    /\ Idle(s)
    /\ \E department \in getAllDepartments(db.store) :
          ops' = [ops EXCEPT ![s] =
                    [IdleOp EXCEPT !.pc = "form",
                                   !.form = [ops[s].form EXCEPT
                                                !.selectedDepartment = department,
                                                !.departmentName = department.name,
                                                !.isEditing = TRUE]]]
    /\ UNCHANGED db

\* openAddModal: resetForm, then the modal opens; the user types a name
OpenAddModal(s) ==
    /\ Idle(s)
    /\ \E department \in NewDepartments :
          ops' = [ops EXCEPT ![s] =
                    [IdleOp EXCEPT !.pc = "form",
                                   !.form = [NoForm EXCEPT !.departmentName = department.name]]]
    /\ UNCHANGED db

\* addBillItem of the screen: setBillItems([...billItems, {name: '', amount: ''}])
FormAddBillItem(s) ==
    /\ ops[s].pc = "form"
    /\ Len(ops[s].form.billItems) < MaxFormItems
    /\ ops' = [ops EXCEPT ![s].form.billItems = Append(@, [name |-> "", amount |-> ""]),
                          ![s].form.itemsChanged = TRUE]
    /\ UNCHANGED db

\* removeBillItem: billItems.filter((_, i) => i !== index)
FormRemoveBillItem(s) ==
    /\ ops[s].pc = "form"
    /\ \E index \in 1..Len(ops[s].form.billItems) :
          ops' = [ops EXCEPT ![s].form.billItems =
                                 SubSeq(@, 1, index - 1) \o SubSeq(@, index + 1, Len(@)),
                             ![s].form.itemsChanged = TRUE]
    /\ UNCHANGED db

\* updateBillItem: newBillItems[index] = {...newBillItems[index], [field]: value}
FormUpdateBillItem(s) ==
    /\ ops[s].pc = "form"
    /\ \E index \in 1..Len(ops[s].form.billItems) :
          \/ \E name \in FormNames :
                ops' = [ops EXCEPT ![s].form.billItems[index].name = name]
          \/ \E amount \in FormAmounts :
                ops' = [ops EXCEPT ![s].form.billItems[index].amount = amount]
    /\ UNCHANGED db

\* closeModal: the modal closes and resetForm runs
CloseModal(s) ==
    /\ ops[s].pc = "form"
    /\ ops' = [ops EXCEPT ![s] = IdleOp]
    /\ UNCHANGED db

\* saveDepartment up to its awaited call: with the name missing or a bill item
\* without name or numeric amount it alerts and returns, changing nothing;
\* otherwise it builds departmentData, billItems always among its fields, and
\* calls updateDepartment with {...selectedDepartment, ...departmentData} when
\* editing, createDepartment with departmentData when not
SaveDepartment(s) ==
    LET form == ops[s].form
        billItems == form.billItems
        departmentData ==
            [name |-> form.departmentName,
             billItems |-> [k \in 1..Len(billItems) |->
                               [amount |-> Number[billItems[k].amount]]]]
    IN  /\ ops[s].pc = "form"
        /\ form.departmentName # ""
        /\ \A k \in 1..Len(billItems) :
              billItems[k].name # "" /\ billItems[k].amount # "" /\ ~isNaN(billItems[k].amount)
        /\ db.store.seq.bill_items + Len(billItems) <= MaxBillItems
        /\ IF form.isEditing /\ form.selectedDepartment.id # 0
           THEN ops' = [ops EXCEPT ![s] =
                          [Call("updateDepartment") EXCEPT
                              !.payload = Spread(form.selectedDepartment, departmentData),
                              !.form = form]]
           ELSE /\ db.store.seq.departments < MaxDepartments
                /\ ops' = [ops EXCEPT ![s] =
                             [Call("createDepartment") EXCEPT
                                 !.payload = departmentData, !.form = form]]
        /\ UNCHANGED db

\* saveDepartment after its awaited call: resetForm and the modal closes when
\* the call returned; the catch leaves the form as it is
SaveDepartmentSettled(s) ==
    /\ ops[s].pc = "done"
    /\ ops[s].kind \in {"updateDepartment", "createDepartment"}
    /\ ops' = [ops EXCEPT ![s] =
                 IF ops[s].outcome = "returned" THEN IdleOp
                 ELSE [IdleOp EXCEPT !.pc = "form", !.form = ops[s].form]]
    /\ UNCHANGED db

\* unenrollStudent called for its result; the store call may reject
UnenrollStudentCall(s) ==
    /\ Idle(s)
    /\ \E studentId \in StudentIdArgs, departmentId \in DepartmentIdArgs,
          rejects \in BOOLEAN :
          Advance(s, unenrollStudentResult(db,
              [Call("unenrollStudent") EXCEPT !.studentId = studentId,
                                              !.departmentId = departmentId],
              rejects))

UpdateStudent(s) ==
    /\ Idle(s)
    /\ \E payload \in UpdateStudentPayloads :
          Advance(s, updateStudent(db, [Call("updateStudent") EXCEPT !.payload = payload]))

DeleteStudent(s) ==
    /\ Idle(s)
    /\ \E id \in StudentIdArgs :
          Advance(s, deleteStudent(db, [Call("deleteStudent") EXCEPT !.studentId = id]))

GetAllStudents(s) ==
    /\ Idle(s)
    /\ Advance(s, getAllStudents(db, Call("getAllStudents")))

UpdateBill(s) ==
    /\ Idle(s)
    /\ \E payload \in UpdateBillPayloads :
          Advance(s, updateBill(db, [Call("updateBill") EXCEPT !.payload = payload]))

UpdateBillItem(s) ==
    /\ Idle(s)
    /\ \E payload \in UpdateBillItemPayloads, bound \in BOOLEAN :
          Advance(s, updateBillItem(db, [Call("updateBillItem") EXCEPT !.payload = payload],
                                    bound))

DeleteDepartment(s) ==
    /\ Idle(s)
    /\ \E id \in DepartmentIdArgs :
          Advance(s, deleteDepartment(db, [Call("deleteDepartment") EXCEPT
                                              !.departmentId = id]))

DeleteBill(s) ==
    /\ Idle(s)
    /\ \E id \in BillIdArgs :
          Advance(s, deleteBill(db, [Call("deleteBill") EXCEPT !.billId = id]))

DeleteBillItem(s) ==
    /\ Idle(s)
    /\ \E id \in BillItemIdArgs :
          Advance(s, deleteBillItem(db, [Call("deleteBillItem") EXCEPT !.billItemId = id]))

SearchStudentsCall(s) ==
    /\ Idle(s)
    /\ \E options \in SearchStudentsOptions :
          ops' = [ops EXCEPT ![s] =
                    [Call("searchStudents") EXCEPT !.pc = "query", !.payload = options]]
    /\ UNCHANGED db

SearchStudentsStep(s) ==
    /\ ops[s].kind = "searchStudents" /\ ops[s].pc \notin {"idle", "done"}
    /\ Advance(s, searchStudents(db, ops[s]))

\* the tables a billing summary is taken over
InitSummary ==
    /\ \E st \in SummaryStores :
          db = [openDatabase(FreshFile) EXCEPT !.store = st, !.committed = st]
    /\ ops = [s \in Slots |-> IdleOp]

GetBillingSummaryForStudent(s) ==
    /\ Idle(s)
    /\ \E id \in StudentIdArgs :
          Advance(s, Step(db, ReturnValue(
              [Call("getBillingSummaryForStudent") EXCEPT !.studentId = id],
              getBillingSummaryForStudent(db.store, id))))

GetBillingSummaryForDepartment(s) ==
    /\ Idle(s)
    /\ \E id \in DepartmentIdArgs :
          Advance(s, Step(db, ReturnValue(
              [Call("getBillingSummaryForDepartment") EXCEPT !.departmentId = id],
              getBillingSummaryForDepartment(db.store, id))))

\* what the operation in flight does when its awaited store call rejects
Reject(o, message) ==
    CASE o.kind = "bulkEnroll" -> bulkEnrollReject(o, message)
      [] o.kind = "createBillWithItems" -> createBillWithItemsReject(o, message)
      [] o.kind = "createBillsForDepartment" -> createBillsForDepartmentReject(o, message)
      [] o.kind = "createDepartment" -> createDepartmentReject(o, message)
      [] o.kind = "updateDepartment" -> updateDepartmentReject(o, message)

\* The store call an operation awaits fails with an I/O error: the statement
\* has no effect and its promise rejects.  sqlite may also have rolled the
\* whole transaction back on such an error (auto).
StoreFault(s) ==
    /\ ops[s].faults < MaxFaults
    /\ ops[s].pc \notin {"idle", "done", "begin", "rollback"}
    /\ \E auto \in BOOLEAN :
          db' = IF auto /\ db.inTxn THEN execRollback(db).db ELSE db
    /\ ops' = [ops EXCEPT ![s] = Reject([ops[s] EXCEPT !.faults = @ + 1], IoError)]

\* the caller has its result (or its exception)
Finish(s) ==
    /\ ops[s].pc = "done"
    /\ ops' = [ops EXCEPT ![s] = IdleOp]
    /\ UNCHANGED db

Next ==
    \/ Reopen
    \/ NoneInFlight /\ AddStudent
    \/ NoneInFlight /\ AddDepartment
    \/ NoneInFlight /\ AddBillItem
    \/ NoneInFlight /\ UnenrollStudent
    \/ \E s \in SeqSlots : BulkEnrollCall(s)
    \/ \E s \in SeqSlots : BulkEnrollAgain(s)
    \/ \E s \in SeqSlots : BulkEnrollStep(s)
    \/ \E s \in SeqSlots : CreateBillWithItemsCall(s)
    \/ \E s \in SeqSlots : CreateBillWithItemsStep(s)
    \/ \E s \in SeqSlots : CreateBillsForDepartmentCall(s)
    \/ \E s \in SeqSlots : CreateBillsForDepartmentStep(s)
    \/ \E s \in SeqSlots : Finish(s)

\* every caller awaits its call before it makes the next; the store does not fail
Spec == Init /\ [][Next]_vars

NextFault == Next \/ \E s \in SeqSlots : StoreFault(s)

\* as Spec, and a store call may fail with an I/O error
SpecFault == Init /\ [][NextFault]_vars

\* departments and their bill items: one call at a time, and a store call
\* may fail with an I/O error
NextDepartment ==
    \/ Reopen
    \/ NoneInFlight /\ AddDepartment
    \/ NoneInFlight /\ AddBillItem
    \/ \E s \in SeqSlots : CreateDepartmentCall(s)
    \/ \E s \in SeqSlots : CreateDepartmentStep(s)
    \/ \E s \in SeqSlots : UpdateDepartmentCall(s)
    \/ \E s \in SeqSlots : UpdateDepartmentStep(s)
    \/ \E s \in SeqSlots : StoreFault(s)
    \/ \E s \in SeqSlots : Finish(s)

SpecDepartment == Init /\ [][NextDepartment]_vars

\* the students and the searches over them, one call at a time
NextSearch ==
    \/ NoneInFlight /\ AddStudent
    \/ \E s \in SeqSlots : UpdateStudent(s)
    \/ \E s \in SeqSlots : DeleteStudent(s)
    \/ \E s \in SeqSlots : GetAllStudents(s)
    \/ \E s \in SeqSlots : SearchStudentsCall(s)
    \/ \E s \in SeqSlots : SearchStudentsStep(s)
    \/ \E s \in SeqSlots : Finish(s)

SpecSearch == Init /\ [][NextSearch]_vars

\* the updates by id, one call at a time, over rows the other operations wrote
NextUpdates ==
    \/ NoneInFlight /\ AddStudent
    \/ NoneInFlight /\ AddDepartment
    \/ NoneInFlight /\ AddBillItem
    \/ \E s \in SeqSlots : CreateBillWithItemsCall(s)
    \/ \E s \in SeqSlots : CreateBillWithItemsStep(s)
    \/ \E s \in SeqSlots : UpdateStudent(s)
    \/ \E s \in SeqSlots : UpdateDepartmentCall(s)
    \/ \E s \in SeqSlots : UpdateDepartmentStep(s)
    \/ \E s \in SeqSlots : UpdateBill(s)
    \/ \E s \in SeqSlots : UpdateBillItem(s)
    \/ \E s \in SeqSlots : Finish(s)

SpecUpdates == Init /\ [][NextUpdates]_vars

\* the deletes, one call at a time, over rows the other operations wrote, on
\* the first connection to the file and on later ones
NextDeletes ==
    \/ Reopen
    \/ NoneInFlight /\ AddStudent
    \/ NoneInFlight /\ AddDepartment
    \/ NoneInFlight /\ AddBillItem
    \/ \E s \in SeqSlots : BulkEnrollCall(s)
    \/ \E s \in SeqSlots : BulkEnrollStep(s)
    \/ \E s \in SeqSlots : CreateBillWithItemsCall(s)
    \/ \E s \in SeqSlots : CreateBillWithItemsStep(s)
    \/ \E s \in SeqSlots : DeleteDepartment(s)
    \/ \E s \in SeqSlots : DeleteBill(s)
    \/ \E s \in SeqSlots : DeleteBillItem(s)
    \/ \E s \in SeqSlots : UpdateDepartmentCall(s)
    \/ \E s \in SeqSlots : UpdateDepartmentStep(s)
    \/ \E s \in SeqSlots : Finish(s)

SpecDeletes == Init /\ [][NextDeletes]_vars

\* Two callers share the connection.  Each makes one call of a transactional
\* operation without waiting for the other's: the awaited store calls of the
\* two operations run in any order.
NextInterleaved ==
    \/ NoneInFlight /\ AddStudent
    \/ NoneInFlight /\ AddDepartment
    \/ NoneInFlight /\ AddBillItem
    \/ \E s \in Slots : BulkEnrollCall(s)
    \/ \E s \in Slots : BulkEnrollStep(s)
    \/ \E s \in Slots : CreateBillWithItemsCall(s)
    \/ \E s \in Slots : CreateBillWithItemsStep(s)
    \/ \E s \in Slots : CreateBillsForDepartmentCall(s)
    \/ \E s \in Slots : CreateBillsForDepartmentStep(s)
    \/ \E s \in Slots : CreateDepartmentCall(s)
    \/ \E s \in Slots : CreateDepartmentStep(s)
    \/ \E s \in Slots : UpdateDepartmentCall(s)
    \/ \E s \in Slots : UpdateDepartmentStep(s)

SpecInterleaved == Init /\ [][NextInterleaved]_vars

\* One caller makes one call of a transactional operation; another, without
\* waiting for it, makes one call of a single-statement operation on the same
\* connection.
OtherSlots == Slots \ SeqSlots

NextDurable ==
    \/ NoneInFlight /\ AddStudent
    \/ NoneInFlight /\ AddDepartment
    \/ NoneInFlight /\ AddBillItem
    \/ \E s \in SeqSlots : BulkEnrollCall(s)
    \/ \E s \in SeqSlots : BulkEnrollStep(s)
    \/ \E s \in SeqSlots : CreateBillWithItemsCall(s)
    \/ \E s \in SeqSlots : CreateBillWithItemsStep(s)
    \/ \E s \in SeqSlots : CreateBillsForDepartmentCall(s)
    \/ \E s \in SeqSlots : CreateBillsForDepartmentStep(s)
    \/ \E s \in SeqSlots : CreateDepartmentCall(s)
    \/ \E s \in SeqSlots : CreateDepartmentStep(s)
    \/ \E s \in SeqSlots : UpdateDepartmentCall(s)
    \/ \E s \in SeqSlots : UpdateDepartmentStep(s)
    \/ \E s \in OtherSlots : AddStudentCall(s)
    \/ \E s \in OtherSlots : UpdateStudent(s)
    \/ \E s \in OtherSlots : DeleteStudent(s)
    \/ \E s \in OtherSlots : AddDepartmentCall(s)
    \/ \E s \in OtherSlots : AddBillItemCall(s)
    \/ \E s \in OtherSlots : UpdateBill(s)

SpecDurable == Init /\ [][NextDurable]_vars

\* the Departments screen over departments that have bill items
NextScreen ==
    \/ NoneInFlight /\ AddDepartment
    \/ NoneInFlight /\ AddBillItem
    \/ \E s \in SeqSlots : HandleEdit(s)
    \/ \E s \in SeqSlots : OpenAddModal(s)
    \/ \E s \in SeqSlots : FormAddBillItem(s)
    \/ \E s \in SeqSlots : FormRemoveBillItem(s)
    \/ \E s \in SeqSlots : FormUpdateBillItem(s)
    \/ \E s \in SeqSlots : CloseModal(s)
    \/ \E s \in SeqSlots : SaveDepartment(s)
    \/ \E s \in SeqSlots : UpdateDepartmentStep(s)
    \/ \E s \in SeqSlots : CreateDepartmentStep(s)
    \/ \E s \in SeqSlots : SaveDepartmentSettled(s)

SpecScreen == Init /\ [][NextScreen]_vars

\* enrolling and unenrolling, one call at a time
NextEnrollment ==
    \/ NoneInFlight /\ AddStudent
    \/ NoneInFlight /\ AddDepartment
    \/ \E s \in SeqSlots : BulkEnrollCall(s)
    \/ \E s \in SeqSlots : BulkEnrollStep(s)
    \/ \E s \in SeqSlots : UnenrollStudentCall(s)
    \/ \E s \in SeqSlots : Finish(s)

SpecEnrollment == Init /\ [][NextEnrollment]_vars

\* the billing summaries, over every combination of bills and payments
NextSummary ==
    \/ \E s \in SeqSlots : GetBillingSummaryForStudent(s)
    \/ \E s \in SeqSlots : GetBillingSummaryForDepartment(s)
    \/ \E s \in SeqSlots : Finish(s)

SpecSummary == InitSummary /\ [][NextSummary]_vars

----------------------------------------------------------------------------
(* Properties of bulkEnroll *)

Completed(s, kind) == ops[s].kind = kind /\ ops[s].pc = "done"
Returned(s, kind) == Completed(s, kind) /\ ops[s].outcome = "returned"
Threw(s, kind) == Completed(s, kind) /\ ops[s].outcome = "threw"

ErrorIds(o) == {o.errors[k].studentId : k \in 1..Len(o.errors)}
Repeats(q) == \E a, b \in 1..Len(q) : a # b /\ q[a] = q[b]

\* C1, as stated: when bulkEnroll returns, successCount plus the number of
\* distinct studentIds with an entry in errors is the length of studentIds,
\* for every list, lists with repeated ids included.
C1_DistinctErrorIds ==
    \A s \in Slots :
        Returned(s, "bulkEnroll") =>
            ops[s].successCount + Cardinality(ErrorIds(ops[s])) = Len(ops[s].studentIds)

\* C1, amended: when bulkEnroll returns, successCount plus the number of
\* entries of errors is the length of studentIds (one disposition for each
\* position of the list); when no id is repeated in the list, that is also
\* successCount plus the number of distinct ids with an error entry.
C1_OneDispositionPerPosition ==
    \A s \in Slots :
        Returned(s, "bulkEnroll") =>
            /\ ops[s].successCount + Len(ops[s].errors) = Len(ops[s].studentIds)
            /\ ~Repeats(ops[s].studentIds) =>
                  ops[s].successCount + Cardinality(ErrorIds(ops[s])) = Len(ops[s].studentIds)

\* a call with a repeated id whose first occurrence was enrolled and whose
\* second was refused has returned
C1_Witness ==
    \E s \in Slots :
        /\ Returned(s, "bulkEnroll")
        /\ Len(ops[s].studentIds) = 2
        /\ ops[s].studentIds[1] = ops[s].studentIds[2]
        /\ ops[s].successCount = 1
        /\ Len(ops[s].errors) = 1

HasError(o, studentId, message) ==
    \E k \in 1..Len(o.errors) :
        o.errors[k].studentId = studentId /\ o.errors[k].error = message

\* C2, as stated: the second of two identical bulkEnroll calls in a row returns
\* successCount = 0 and an "Already enrolled" entry for every id of studentIds.
C2_AllAlreadyEnrolled ==
    \A s \in Slots :
        Returned(s, "bulkEnroll") /\ ops[s].again =>
            /\ ops[s].successCount = 0
            /\ \A k \in 1..Len(ops[s].studentIds) :
                  HasError(ops[s], ops[s].studentIds[k], "Already enrolled")

\* C2, amended: the second of two identical bulkEnroll calls in a row, when it
\* returns, returns successCount = 0 and one errors entry for each position of
\* studentIds, in order: "Already enrolled" when the id names a student,
\* "Student not found" when it names none.
C2_SecondCallEnrollsNobody ==
    \A s \in Slots :
        Returned(s, "bulkEnroll") /\ ops[s].again =>
            /\ ops[s].successCount = 0
            /\ Len(ops[s].errors) = Len(ops[s].studentIds)
            /\ \A k \in 1..Len(ops[s].studentIds) :
                  /\ ops[s].errors[k].studentId = ops[s].studentIds[k]
                  /\ ops[s].errors[k].error =
                         IF ops[s].studentIds[k] \in Ids(db.committed.students)
                         THEN "Already enrolled" ELSE "Student not found"
            /\ db.committed = ops[s].pre

\* a repeated call over a student and an id that names none has returned
C2_Witness ==
    \E s \in Slots :
        /\ Returned(s, "bulkEnroll") /\ ops[s].again
        /\ Len(ops[s].studentIds) = 2
        /\ HasError(ops[s], ops[s].studentIds[1], "Already enrolled")
        /\ HasError(ops[s], ops[s].studentIds[2], "Student not found")

\* C3: bulkEnroll for a departmentId with no departments row throws, leaves no
\* transaction open, and the student_departments rows, committed and as the
\* connection sees them, are those of before the call.
C3_MissingDepartmentFailsCall ==
    \A s \in Slots :
        Completed(s, "bulkEnroll") /\ ops[s].departmentId \notin Ids(ops[s].pre.departments) =>
            /\ ops[s].outcome = "threw"
            /\ ~db.inTxn
            /\ db.committed.student_departments = ops[s].pre.student_departments
            /\ db.store.student_departments = ops[s].pre.student_departments

\* such a call, over a non-empty list and a store that holds enrollments
C3_Witness ==
    \E s \in Slots :
        /\ Threw(s, "bulkEnroll")
        /\ ops[s].departmentId \notin Ids(ops[s].pre.departments)
        /\ Len(ops[s].studentIds) = 2
        /\ \E k \in 1..2 : ops[s].studentIds[k] \in Ids(ops[s].pre.students)
        /\ ops[s].pre.student_departments # {}

\* the disposition the contract gives position k of the list
Disposition(o, k) ==
    LET id == o.studentIds[k]
    IN  IF id \notin Ids(o.pre.students) THEN "Student not found"
        ELSE IF \/ EnrollmentRows(o.pre, id, o.departmentId) # {}
                \/ \E h \in 1..(k - 1) : o.studentIds[h] = id
        THEN "Already enrolled"
        ELSE "enrolled"

RECURSIVE ExpectedErrors(_, _)
ExpectedErrors(o, k) ==
    IF k = 0 THEN <<>>
    ELSE IF Disposition(o, k) = "enrolled" THEN ExpectedErrors(o, k - 1)
    ELSE Append(ExpectedErrors(o, k - 1),
                [studentId |-> o.studentIds[k], error |-> Disposition(o, k)])

EnrolledPositions(o) == {k \in 1..Len(o.studentIds) : Disposition(o, k) = "enrolled"}

\* C4: bulkEnroll gives each id its disposition and commits the successes:
\* errors holds, in order, "Student not found" for an id with no students row
\* and "Already enrolled" for an id that has a row for the department;
\* successCount counts the others, and each of them has exactly one committed
\* row, new, with status "active" and isActive = TRUE; the rows of before the
\* call are kept as they were.
C4_Dispositions ==
    \A s \in Slots :
        Returned(s, "bulkEnroll") =>
            LET o == ops[s]
                new == db.committed.student_departments \ o.pre.student_departments
            IN  /\ o.errors = ExpectedErrors(o, Len(o.studentIds))
                /\ o.successCount = Cardinality(EnrolledPositions(o))
                /\ o.pre.student_departments \subseteq db.committed.student_departments
                /\ Cardinality(new) = o.successCount
                /\ \A k \in EnrolledPositions(o) :
                      \E r \in new :
                          /\ r.studentId = o.studentIds[k]
                          /\ r.departmentId = o.departmentId
                          /\ r.status = "active" /\ r.isActive
                /\ ~db.inTxn

\* the scenario: S = 1 already enrolled, T = 2 new; the call returned
\* {successCount: 1, errors: [{studentId: S, error: "Already enrolled"}]}
\* and T's row is committed
C4_Witness ==
    \E s \in Slots :
        /\ Returned(s, "bulkEnroll")
        /\ ops[s].studentIds = <<1, 2>>
        /\ EnrollmentRows(ops[s].pre, 1, ops[s].departmentId) # {}
        /\ EnrollmentRows(ops[s].pre, 2, ops[s].departmentId) = {}
        /\ ops[s].successCount = 1
        /\ ops[s].errors = <<[studentId |-> 1, error |-> "Already enrolled"]>>
        /\ EnrollmentRows(db.committed, 2, ops[s].departmentId) # {}

----------------------------------------------------------------------------
(* Properties of createBillsForDepartment *)

\* createTablesSQL creates none of the tables studentDepartments, billItems and
\* billItemRelations that createBillsForDepartment names, so no call of it
\* resolves: each ends in the catch block
createBillsForDepartmentAlwaysThrows ==
    \A s \in Slots : Completed(s, "createBillsForDepartment") => ops[s].outcome = "threw"

ActiveEnrollments(st, departmentId) ==
    {e \in st.student_departments : e.departmentId = departmentId /\ e.isActive}

\* C6, as stated: department D has the bill items Tuition = 100 and Books = 20
\* and two actively enrolled students; createBillsForDepartment(D,
\* [{billItemId: Tuition}, {billItemId: Books}], "Term1") returns
\* {billsCreated: 2, totalAmount: 240, errors: []} and persists two bills of
\* totalAmount 120 each.
C6_TwoStudentsTwoItems ==
    \A s \in Slots :
        LET o == ops[s]
            new == db.committed.bills \ o.pre.bills
        IN  /\ Completed(s, "createBillsForDepartment")
            /\ o.departmentId \in Ids(o.pre.departments)
            /\ o.items = <<[billItemId |-> 1], [billItemId |-> 2]>>
            /\ [id |-> 1, departmentId |-> o.departmentId, amount |-> Tuition]
                   \in o.pre.bill_items
            /\ [id |-> 2, departmentId |-> o.departmentId, amount |-> Books]
                   \in o.pre.bill_items
            /\ Cardinality(ActiveEnrollments(o.pre, o.departmentId)) = 2
            => /\ o.outcome = "returned"
               /\ o.billsCreated = 2
               /\ o.totalAmount = 2 * (Tuition + Books)
               /\ o.errors = <<>>
               /\ Cardinality(new) = 2
               /\ \A b \in new : b.totalAmount = Tuition + Books

\* C7: createBillsForDepartment for a departmentId with no departments row
\* throws, leaves no transaction open, and the bills and bill_item_relations
\* rows, committed and as the connection sees them, are those of before the call.
C7_MissingDepartmentFailsCall ==
    \A s \in Slots :
        Completed(s, "createBillsForDepartment")
          /\ ops[s].departmentId \notin Ids(ops[s].pre.departments) =>
            /\ ops[s].outcome = "threw"
            /\ ~db.inTxn
            /\ db.committed.bills = ops[s].pre.bills
            /\ db.committed.bill_item_relations = ops[s].pre.bill_item_relations
            /\ db.store.bills = ops[s].pre.bills
            /\ db.store.bill_item_relations = ops[s].pre.bill_item_relations

\* such a call, on a store that holds a bill and its items
C7_Witness ==
    \E s \in Slots :
        /\ Threw(s, "createBillsForDepartment")
        /\ ops[s].departmentId \notin Ids(ops[s].pre.departments)
        /\ ops[s].pre.bills # {}
        /\ ops[s].pre.bill_item_relations # {}

----------------------------------------------------------------------------
(* Properties of createBillWithItems *)

\* the total the contract gives a submitted item: quantity 1, amount 0 and
\* discount 0 stand in only for a field that is left out
SubmittedItemTotal(item) ==
    (Coalesce(item, "amount", 0) * Coalesce(item, "quantity", 1))
        - Coalesce(item, "discount", 0)

RECURSIVE SumOver(_, _)
SumOver(items, k) ==
    IF k = 0 THEN 0 ELSE SumOver(items, k - 1) + SubmittedItemTotal(items[k])

\* C8, as stated: when createBillWithItems succeeds, the returned totalAmount
\* is the sum over the submitted items of amount * quantity - discount, the
\* defaults applying only to omitted fields (so an item of quantity 0 adds
\* only its negated discount).  Stated for a bill whose student, department
\* and bill items all exist.
C8_TotalOfSubmittedItems ==
    \A s \in Slots :
        LET o == ops[s]
        IN  /\ Returned(s, "createBillWithItems")
            /\ o.studentId \in Ids(o.pre.students)
            /\ o.departmentId \in Ids(o.pre.departments)
            /\ \A k \in 1..Len(o.items) : o.items[k].billItemId \in Ids(o.pre.bill_items)
            => o.totalAmount = SumOver(o.items, Len(o.items))

\* C9: createBillWithItems is atomic.  While the call is in flight nothing of
\* it is committed; when it has thrown, the bills and bill_item_relations rows
\* are those of before the call and no transaction is open; when it has
\* returned, exactly one bills row was added, and with it one
\* bill_item_relations row for each submitted item.
C9_AtomicPerBill ==
    \A s \in Slots :
        ops[s].kind = "createBillWithItems" =>
            LET o == ops[s]
                newBills == db.committed.bills \ o.pre.bills
                newRelations == db.committed.bill_item_relations \ o.pre.bill_item_relations
            IN  /\ o.pre.bills \subseteq db.committed.bills
                /\ o.pre.bill_item_relations \subseteq db.committed.bill_item_relations
                /\ o.outcome # "returned" => newBills = {} /\ newRelations = {}
                /\ o.outcome = "threw" => ~db.inTxn /\ db.store = db.committed
                /\ o.outcome = "returned" =>
                      /\ Cardinality(newBills) = 1
                      /\ \A b \in newBills : b.id = o.billId
                      /\ newRelations =
                             {r \in db.committed.bill_item_relations : r.billId = o.billId}
                      /\ Cardinality(newRelations) = Len(o.items)

\* the call has thrown after it had inserted the bill and both of its items:
\* the UPDATE of totalAmount or the COMMIT failed
C9_Witness ==
    \E s \in Slots :
        /\ Threw(s, "createBillWithItems")
        /\ ops[s].billId # 0
        /\ Len(ops[s].items) = 2
        /\ ItemTotal(ops[s].items[1]) > 0 /\ ItemTotal(ops[s].items[2]) > 0
        /\ ops[s].totalAmount = ItemTotal(ops[s].items[1]) + ItemTotal(ops[s].items[2])

\* C10, as stated: createBillWithItems for an existing student and department
\* with an item whose billItemId names no bill_items row throws and persists
\* no bills row, on every connection initDatabase has set up.
C10_UnknownBillItemFailsCall ==
    \A s \in Slots :
        LET o == ops[s]
        IN  /\ Completed(s, "createBillWithItems")
            /\ o.studentId \in Ids(o.pre.students)
            /\ o.departmentId \in Ids(o.pre.departments)
            /\ \E k \in 1..Len(o.items) : o.items[k].billItemId \notin Ids(o.pre.bill_items)
            => /\ o.outcome = "threw"
               /\ db.committed.bills = o.pre.bills

----------------------------------------------------------------------------
(* Properties of createDepartment and updateDepartment *)

RECURSIVE SumAmounts(_, _)
SumAmounts(items, k) ==
    IF k = 0 THEN 0 ELSE SumAmounts(items, k - 1) + items[k].amount

\* C11: createDepartment is one transaction.  When it has returned, exactly
\* one departments row was added, with the returned id and the submitted name,
\* and one bill_items row for each submitted item, with that item's amount and
\* the new department's id, and totalAmount is the sum of the submitted
\* amounts.  When it has thrown, the departments and bill_items rows are those
\* of before the call and no transaction is open.  Until it returns, nothing
\* of it is committed.
C11_DepartmentWithItems ==
    \A s \in Slots :
        ops[s].kind = "createDepartment" =>
            LET o == ops[s]
                items == PayloadBillItems(o.payload)
                newDepartments == db.committed.departments \ o.pre.departments
                newItems == db.committed.bill_items \ o.pre.bill_items
            IN  /\ o.pre.departments \subseteq db.committed.departments
                /\ o.pre.bill_items \subseteq db.committed.bill_items
                /\ o.outcome # "returned" => newDepartments = {} /\ newItems = {}
                /\ o.outcome = "threw" => ~db.inTxn /\ db.store = db.committed
                /\ o.outcome = "returned" =>
                      /\ newDepartments =
                             {[id |-> o.departmentId, name |-> o.payload.name,
                               isActive |-> TRUE]}
                      /\ o.departmentId \notin Ids(o.pre.departments)
                      /\ Len(o.billItems) = Len(items)
                      /\ newItems = {o.billItems[k] : k \in 1..Len(items)}
                      /\ Cardinality(newItems) = Len(items)
                      /\ \A k \in 1..Len(items) :
                            /\ o.billItems[k].amount = items[k].amount
                            /\ o.billItems[k].departmentId = o.departmentId
                      /\ o.totalAmount = SumAmounts(items, Len(items))
                      /\ ~db.inTxn

\* the call has thrown after it had inserted the department and both of its
\* bill items: the COMMIT failed
C11_Witness ==
    \E s \in Slots :
        /\ Threw(s, "createDepartment")
        /\ ops[s].departmentId # 0
        /\ Len(ops[s].billItems) = 2
        /\ ops[s].totalAmount = Tuition + Books

BillItemsOf(st, departmentId) == {b \in st.bill_items : b.departmentId = departmentId}

\* C12: updateDepartment with a billItems array is a full replace in one
\* transaction.  When it has returned, the bill_items rows of the department
\* are new rows, one for each supplied item and with its amount, no row of
\* before the call among them; the bill items of other departments are as
\* before, and so is every departments row but the updated one, which has the
\* submitted name.  When it has thrown, the departments and bill_items rows are
\* those of before the call and no transaction is open.  Until it returns,
\* nothing of it is committed.
C12_FullReplace ==
    \A s \in Slots :
        ops[s].kind = "updateDepartment" /\ "billItems" \in DOMAIN ops[s].payload =>
            LET o == ops[s]
                items == o.payload.billItems
                n == Len(items)
            IN  /\ o.outcome # "returned" =>
                      /\ db.committed.departments = o.pre.departments
                      /\ db.committed.bill_items = o.pre.bill_items
                /\ o.outcome = "threw" => ~db.inTxn /\ db.store = db.committed
                /\ o.outcome = "returned" =>
                      LET id == o.payload.id
                          now == BillItemsOf(db.committed, id)
                      IN  /\ now \cap o.pre.bill_items = {}
                          /\ Ids(now) \cap Ids(o.pre.bill_items) = {}
                          /\ Cardinality(now) = n
                          /\ \E f \in [1..n -> now] :
                                /\ \A a, b \in 1..n : f[a] = f[b] => a = b
                                /\ \A k \in 1..n : f[k].amount = items[k].amount
                          /\ db.committed.bill_items \ now = o.pre.bill_items \ BillItemsOf(o.pre, id)
                          /\ db.committed.departments =
                                 {IF x.id = id THEN [x EXCEPT !.name = o.payload.name] ELSE x :
                                     x \in o.pre.departments}
                          /\ ~db.inTxn

\* the call has thrown after it had renamed the department, deleted its bill
\* item and inserted the one submitted in its place: the COMMIT failed
C12_Witness ==
    \E s \in Slots :
        /\ Threw(s, "updateDepartment")
        /\ "billItems" \in DOMAIN ops[s].payload
        /\ ops[s].pc = "done" /\ ops[s].j = Len(ops[s].payload.billItems)
        /\ ops[s].j >= 1
        /\ ops[s].inserted.bill_items # {}
        /\ ops[s].removed.bill_items # {}
        /\ ops[s].removed.departments # {}
        /\ db.committed.bill_items = ops[s].pre.bill_items

----------------------------------------------------------------------------
(* Properties of the students and their searches *)

\* C13, as stated: searchStudents called with pagination where page < 1 or
\* pageSize <= 0 fails with a validation error; it returns no result object.
\* Stated for a store that holds students.
C13_BadPaginationRejected ==
    \A s \in Slots :
        LET o == ops[s]
        IN  /\ Completed(s, "searchStudents")
            /\ o.pre.students # {}
            /\ "pagination" \in DOMAIN o.payload
            /\ o.payload.pagination.page < 1 \/ o.payload.pagination.pageSize <= 0
            => o.outcome = "threw"

SeqRange(q) == {q[k] : k \in 1..Len(q)}

\* C17, as stated: after deleteStudent(id) has succeeded the students row is
\* still there, with isActive = FALSE; no such row is in the result of
\* getAllStudents, nor in that of searchStudents unless includeInactive = true
\* was passed; searchStudents with includeInactive = true and no pagination
\* returns it with the other rows.
C17_SoftDeletedHidden ==
    \A s \in Slots :
        LET o == ops[s]
        IN  /\ Returned(s, "deleteStudent") /\ o.result =>
                  \E r \in db.store.students : r.id = o.studentId /\ ~r.isActive
            /\ Returned(s, "getAllStudents") =>
                  \A r \in SeqRange(o.result) : r.isActive
            /\ Returned(s, "searchStudents") =>
                  IF IncludeInactive(o.payload)
                  THEN "pagination" \notin DOMAIN o.payload =>
                           SeqRange(o.result.data) = db.store.students
                  ELSE \A r \in SeqRange(o.result.data) : r.isActive

----------------------------------------------------------------------------
(* Properties of update and delete by id *)

UpdatesById == {"updateStudent", "updateDepartment", "updateBill", "updateBillItem"}

\* C14, as stated: updateStudent, updateDepartment, updateBill and
\* updateBillItem called with a record that has no id fail with an "ID is
\* required" error, change no row and open no transaction.
C14_IdRequired ==
    \A s \in Slots :
        LET o == ops[s]
        IN  o.kind \in UpdatesById /\ o.pc = "done" /\ IdMissing(o.payload) =>
                /\ o.outcome = "threw"
                /\ o.thrown \in {"Student ID is required for update",
                                 "Department ID is required for update",
                                 "Bill ID is required for update",
                                 "Bill item ID is required for update"}
                /\ db.store = o.pre /\ db.committed = o.pre
                /\ ~db.inTxn

\* the rows of st that reference a row that is not there
Orphans(st) ==
    [student_departments |->
        {e \in st.student_departments :
            e.studentId \notin Ids(st.students) \/ e.departmentId \notin Ids(st.departments)},
     bill_items |-> {b \in st.bill_items : b.departmentId \notin Ids(st.departments)},
     bills |->
        {b \in st.bills :
            b.studentId \notin Ids(st.students) \/ b.departmentId \notin Ids(st.departments)},
     bill_item_relations |->
        {r \in st.bill_item_relations :
            r.billId \notin Ids(st.bills) \/ r.billItemId \notin Ids(st.bill_items)},
     payments |->
        {p \in st.payments :
            p.billId \notin Ids(st.bills) \/ p.studentId \notin Ids(st.students)}]

NoOrphans ==
    [student_departments |-> {}, bill_items |-> {}, bills |-> {},
     bill_item_relations |-> {}, payments |-> {}]

\* C16, as stated: on every connection, when deleteDepartment, deleteBill,
\* deleteBillItem or updateDepartment (which deletes the department's bill
\* items) has returned, the rows that referenced the deleted rows are deleted
\* too: a store in which no row referenced a missing parent before the call is
\* such a store after it.
C16_DeleteCascades ==
    \A s \in Slots :
        LET o == ops[s]
        IN  /\ o.pc = "done" /\ o.outcome = "returned"
            /\ o.kind \in {"deleteDepartment", "deleteBill", "deleteBillItem",
                            "updateDepartment"}
            /\ Orphans(o.pre) = NoOrphans
            => Orphans(db.committed) = NoOrphans

----------------------------------------------------------------------------
(* Properties of interleaved transactional operations *)

TransactionalKinds ==
    {"bulkEnroll", "createBillsForDepartment", "createBillWithItems",
     "createDepartment", "updateDepartment"}

\* the primary keys of the rows the call o wrote, per table
WrittenIds(o) == [t \in Tables |-> Ids(o.inserted[t]) \cup Ids(o.removed[t])]

\* every row the call o added is in st and every row it took away is not
AllPersisted(o, st) ==
    \A t \in Tables : o.inserted[t] \subseteq st[t] /\ o.removed[t] \cap st[t] = {}

\* no row the call o added is in st and every row it took away still is
NonePersisted(o, st) ==
    \A t \in Tables : o.inserted[t] \cap st[t] = {} /\ o.removed[t] \subseteq st[t]

\* C15, as stated: when two transactional operations were invoked on the same
\* connection and both have completed, whatever the order of their awaited
\* store calls, the row writes of each are in the file all together or not at
\* all.  (Judged where the two calls wrote different rows, so that neither
\* call's writes are hidden by the other's.)
C15_InterleavedAtomic ==
    /\ \A s \in Slots : ops[s].pc = "done" /\ ops[s].kind \in TransactionalKinds
    /\ \A t \in Tables : WrittenIds(ops[1])[t] \cap WrittenIds(ops[2])[t] = {}
    => \A s \in Slots :
          AllPersisted(ops[s], db.committed) \/ NonePersisted(ops[s], db.committed)

----------------------------------------------------------------------------
(* Properties of the enrollment rows *)

\* the ids a list of studentIds holds
StudentIdsOf(o) == {o.studentIds[k] : k \in 1..Len(o.studentIds)}

OneRowPerPair(st) ==
    \A r1, r2 \in st.student_departments :
        r1.studentId = r2.studentId /\ r1.departmentId = r2.departmentId => r1 = r2

\* C19: whatever bulkEnroll calls (lists that repeat an id included) and
\* unenrollStudent calls have been made, student_departments holds at most
\* one row per (studentId, departmentId), active or inactive, both as the
\* connection sees the table and as the file holds it.
C19_OneRowPerPair == OneRowPerPair(db.store) /\ OneRowPerPair(db.committed)

\* bulkEnroll has returned from a list that names a student twice, and that
\* student's row for the department is a withdrawn one
C19_Witness ==
    \E s \in Slots :
        /\ Returned(s, "bulkEnroll")
        /\ Repeats(ops[s].studentIds)
        /\ \E r \in db.committed.student_departments :
              /\ ~r.isActive
              /\ r.departmentId = ops[s].departmentId
              /\ r.studentId \in StudentIdsOf(ops[s])

\* the student S had a withdrawn row for the department when the call o began
\* (the row unenrollStudent left)
WithdrawnBefore(o, S) ==
    \E r \in EnrollmentRows(o.pre, S, o.departmentId) : ~r.isActive

\* C20, as stated: when bulkEnroll(D, [S]) returns and S had been withdrawn
\* from D by unenrollStudent, S counts as a success, the one row of (S, D) is
\* active again, getEnrollmentsByDepartment(D) returns S, and there is no
\* second row for (S, D).
C20_ReenrollUpdatesRow ==
    \A s \in Slots :
        LET o == ops[s]
        IN  /\ Returned(s, "bulkEnroll")
            /\ Len(o.studentIds) = 1
            /\ WithdrawnBefore(o, o.studentIds[1])
            => LET S == o.studentIds[1]
                   rows == EnrollmentRows(db.committed, S, o.departmentId)
               IN  /\ o.successCount = 1
                   /\ o.errors = <<>>
                   /\ Cardinality(rows) = 1
                   /\ \A r \in rows : r.isActive
                   /\ S \in Ids(getEnrollmentsByDepartment(db.committed, o.departmentId))

----------------------------------------------------------------------------
(* Properties of the billing summaries *)

\* the active bills of st a summary row r speaks of
BillsOfRow(st, o, r) ==
    {b \in st.bills :
        /\ b.isActive /\ b.departmentId = r.departmentId
        /\ o.kind = "getBillingSummaryForStudent" => b.studentId = r.studentId}

\* the active completed payments of those bills
PaidOn(st, bills) ==
    {p \in st.payments : p.billId \in Ids(bills) /\ p.isActive /\ p.status = "completed"}

\* C18, as stated: every row of a billing summary, per student or per
\* department, reports totalBilled = the sum of totalAmount over the group's
\* active bills, each counted once, totalPaid = the sum of the amounts of
\* those bills' active completed payments, and totalUnpaid = their difference,
\* whatever number of payments the bills have.
C18_SummaryTotals ==
    \A s \in Slots :
        LET o == ops[s]
        IN  /\ o.pc = "done"
            /\ o.kind \in {"getBillingSummaryForStudent", "getBillingSummaryForDepartment"}
            => \A r \in o.result :
                  LET bills == BillsOfRow(db.store, o, r)
                      paid == PaidOn(db.store, bills)
                      totalBilled == Sum(bills, [b \in bills |-> b.totalAmount])
                      totalPaid == Sum(paid, [p \in paid |-> p.amount])
                  IN  /\ r.totalBilled = totalBilled
                      /\ r.totalPaid = totalPaid
                      /\ r.totalUnpaid = totalBilled - totalPaid

----------------------------------------------------------------------------
(* Properties of createBillsForDepartment on an existing department *)

\* a requested item that neither carries an amount nor names a stored bill item
Unresolvable(st, item) ==
    "amount" \notin DOMAIN item /\ item.billItemId \notin Ids(st.bill_items)

RequestedItems(o) == {o.items[k] : k \in 1..Len(o.items)}

\* the amount of a requested item: the override, else the stored amount
RequestedAmount(st, item) ==
    IF "amount" \in DOMAIN item THEN item.amount
    ELSE (CHOOSE b \in st.bill_items : b.id = item.billItemId).amount

\* the sum of amount x quantity over the first k requested items
RECURSIVE RequestedTotal(_, _, _)
RequestedTotal(st, items, k) ==
    IF k = 0 THEN 0
    ELSE RequestedTotal(st, items, k - 1)
           + RequestedAmount(st, items[k])
               * (IF "quantity" \in DOMAIN items[k] THEN items[k].quantity ELSE 1)

\* C21, as stated: createBillsForDepartment for an existing department with
\* actively enrolled students, where a requested item has no amount supplied
\* and no stored bill item, returns a result instead of throwing; each of
\* those students is recorded in errors, nothing is counted in billsCreated
\* or totalAmount, and no bill is persisted for them.
C21_StudentFailureTolerated ==
    \A s \in Slots :
        LET o == ops[s]
            enrolled == {e.studentId : e \in ActiveEnrollments(o.pre, o.departmentId)}
        IN  /\ Completed(s, "createBillsForDepartment")
            /\ o.departmentId \in Ids(o.pre.departments)
            /\ enrolled # {}
            /\ \E item \in RequestedItems(o) : Unresolvable(o.pre, item)
            => /\ o.outcome = "returned"
               /\ enrolled \subseteq ErrorIds(o)
               /\ o.billsCreated = 0
               /\ o.totalAmount = 0
               /\ db.committed.bills = o.pre.bills

\* C22, as stated: createBillsForDepartment for an existing department whose
\* requested items all name stored bill items returns, and the bills it persisted are
\* exactly one pending bill per actively enrolled student, of totalAmount =
\* the sum of amount x quantity over the requested items, each with one
\* bill_item_relations row per requested item; students never enrolled or
\* withdrawn get none.
C22_OneBillPerActiveStudent ==
    \A s \in Slots :
        LET o == ops[s]
            enrolled == {e.studentId : e \in ActiveEnrollments(o.pre, o.departmentId)}
            new == db.committed.bills \ o.pre.bills
        IN  /\ Completed(s, "createBillsForDepartment")
            /\ o.departmentId \in Ids(o.pre.departments)
            /\ \A item \in RequestedItems(o) : item.billItemId \in Ids(o.pre.bill_items)
            => /\ o.outcome = "returned"
               /\ {b.studentId : b \in new} = enrolled
               /\ Cardinality(new) = Cardinality(enrolled)
               /\ \A b \in new :
                     /\ b.status = "pending"
                     /\ b.departmentId = o.departmentId
                     /\ b.totalAmount = RequestedTotal(o.pre, o.items, Len(o.items))
                     /\ Cardinality({r \in db.committed.bill_item_relations :
                                        r.billId = b.id}) = Len(o.items)

----------------------------------------------------------------------------
(* Properties of the bill createBillWithItems returns *)

\* the persisted bill_item_relations rows of a bill
RelationsOf(st, billId) == {r \in st.bill_item_relations : r.billId = billId}

\* C23: when createBillWithItems has returned, the persisted bills row of the
\* returned id carries the returned totalAmount, the bill has exactly one
\* persisted bill_item_relations row per submitted item, and totalAmount is
\* the sum of amount * quantity - discount over those rows.
C23_ReturnedAgreesWithPersisted ==
    \A s \in Slots :
        LET o == ops[s]
            relations == RelationsOf(db.committed, o.billId)
        IN  Returned(s, "createBillWithItems") =>
              /\ \E b \in db.committed.bills : b.id = o.billId
              /\ \A b \in db.committed.bills : b.id = o.billId => b.totalAmount = o.totalAmount
              /\ Cardinality(relations) = Len(o.items)
              /\ o.totalAmount =
                     Sum(relations, [r \in relations |-> r.amount * r.quantity - r.discount])

\* the call has returned a bill of two items, one with a discount and one
\* with every optional field left out
C23_Witness ==
    \E s \in Slots :
        /\ Returned(s, "createBillWithItems")
        /\ Len(ops[s].items) = 2
        /\ \E k \in 1..2 : "discount" \in DOMAIN ops[s].items[k] /\ ops[s].items[k].discount > 0
        /\ \E k \in 1..2 : DOMAIN ops[s].items[k] = {"billItemId"}
        /\ ops[s].totalAmount > 0
        /\ Cardinality(RelationsOf(db.committed, ops[s].billId)) = 2

----------------------------------------------------------------------------
(* The frame of updateDepartment *)

\* the bill_items rows of every department but departmentId
BillItemsOfOthers(st, departmentId) ==
    {b \in st.bill_items : b.departmentId # departmentId}

\* st holds the bills rows of before the call o, the bill_items rows of the
\* departments it does not name and, when it carries no billItems, the
\* bill_items rows of the department it names
UpdateDepartmentFrame(st, o) ==
    /\ st.bills = o.pre.bills
    /\ IF IdMissing(o.payload) THEN st.bill_items = o.pre.bill_items
       ELSE /\ BillItemsOfOthers(st, o.payload.id) = BillItemsOfOthers(o.pre, o.payload.id)
            /\ "billItems" \notin DOMAIN o.payload =>
                   BillItemsOf(st, o.payload.id) = BillItemsOf(o.pre, o.payload.id)

\* C24: when updateDepartment has returned or thrown, every bills row and the
\* bill_items rows of all other departments are as before the call, and so
\* are the bill_items rows of the department itself when the payload carries
\* no billItems array.
C24_UpdateDepartmentFrame ==
    \A s \in Slots :
        Completed(s, "updateDepartment") =>
            UpdateDepartmentFrame(db.store, ops[s]) /\ UpdateDepartmentFrame(db.committed, ops[s])

\* updateDepartment has renamed a department that has a bill item and a bill,
\* from a payload without billItems
C24_Witness ==
    \E s \in Slots :
        /\ Returned(s, "updateDepartment")
        /\ "billItems" \notin DOMAIN ops[s].payload
        /\ ops[s].removed.departments # {}
        /\ BillItemsOf(db.committed, ops[s].payload.id) # {}
        /\ db.committed.bills # {}

----------------------------------------------------------------------------
(* Properties of the rows searchStudents returns *)

\* the letters of text, in lower case
Lowered(text) == [k \in 1..Len(text) |-> Lower(text[k])]

\* q occurs in text, case aside
Occurs(q, text) ==
    \E from \in 1..(Len(text) - Len(q) + 1) :
        SubSeq(Lowered(text), from, from + Len(q) - 1) = Lowered(q)

\* the students the options ask for: active unless includeInactive, the
\* non-blank query occurring in one of the four text columns, and every filter
\* that carries a value holding, whatever the query
Wanted(st, options) ==
    {r \in st.students :
        /\ IncludeInactive(options) \/ r.isActive
        /\ "searchOptions" \in DOMAIN options =>
              LET searchOptions == options.searchOptions
                  q == Trim(Spelling[searchOptions.query])
              IN  /\ q # <<>> =>
                         \E field \in {"firstname", "othernames", "phone", "address"} :
                             Occurs(q, Spelling[r[field]])
                  /\ "filters" \in DOMAIN searchOptions =>
                         \A field \in DOMAIN searchOptions.filters :
                             searchOptions.filters[field] # "" =>
                                 r[field] = searchOptions.filters[field]}

----------------------------------------------------------------------------
(* Properties of the pages searchStudents returns *)

Min(a, b) == IF a < b THEN a ELSE b

\* the rows the WHERE clause of the call keeps, in the order of the call
Filtered(st, options) == SearchOrder(SearchMatches(st, options), options)

\* page p of pages of z rows each
PageOf(all, p, z) ==
    [k \in 1..(IF (p - 1) * z >= Len(all) THEN 0 ELSE Min(z, Len(all) - (p - 1) * z)) |->
        all[(p - 1) * z + k]]

\* pages 1..n of z rows each, one after the other
RECURSIVE PagesUpTo(_, _, _)
PagesUpTo(all, n, z) ==
    IF n = 0 THEN <<>> ELSE PagesUpTo(all, n - 1, z) \o PageOf(all, n, z)

\* C26: a searchStudents call with page >= 1 and pageSize >= 1 returns page
\* and pageSize as given, total = the number of rows matching the filter,
\* totalPages = ceil(total / pageSize) and as data the rows of that page of
\* the filtered, ordered result, at most pageSize of them; pages
\* 1..totalPages one after the other are that result, every row once.  A call
\* without pagination returns all the matching rows, page 1 of 1, pageSize
\* and total both the number of rows.
C26_Pagination ==
    \A s \in Slots :
        LET o == ops[s]
            all == Filtered(db.store, o.payload)
            n == Len(all)
        IN  Returned(s, "searchStudents") =>
              IF "pagination" \in DOMAIN o.payload
              THEN LET page == o.payload.pagination.page
                       pageSize == o.payload.pagination.pageSize
                   IN  page >= 1 /\ pageSize >= 1 =>
                         /\ o.result.page = page
                         /\ o.result.pageSize = pageSize
                         /\ o.result.total = n
                         /\ o.result.totalPages * pageSize >= n
                         /\ (o.result.totalPages - 1) * pageSize < n \/ n = 0
                         /\ n = 0 => o.result.totalPages = 0
                         /\ Len(o.result.data) <= pageSize
                         /\ o.result.data = PageOf(all, page, pageSize)
                         /\ PagesUpTo(all, o.result.totalPages, pageSize) = all
              ELSE /\ o.result.data = all
                   /\ o.result.page = 1 /\ o.result.totalPages = 1
                   /\ o.result.pageSize = n /\ o.result.total = n

\* the second page of two, one row a page, has been returned
C26_Witness ==
    \E s \in Slots :
        /\ Returned(s, "searchStudents")
        /\ "pagination" \in DOMAIN ops[s].payload
        /\ ops[s].payload.pagination = [page |-> 2, pageSize |-> 1]
        /\ ops[s].result.total = 2
        /\ ops[s].result.totalPages = 2
        /\ Len(ops[s].result.data) = 1
        /\ ops[s].result.data[1].id = 2

----------------------------------------------------------------------------
(* Properties of the transactions the operations open *)

\* C27, as stated: when a call of bulkEnroll, createBillsForDepartment,
\* createBillWithItems, createDepartment or updateDepartment has returned or
\* thrown, a BEGIN of its own that succeeded was followed by exactly one
\* COMMIT or ROLLBACK of its own that ended a transaction, and a call whose
\* BEGIN did not succeed ended none; once every call has completed no
\* transaction is open on the connection.
C27_TransactionsComplete ==
    /\ \A s \in Slots :
          ops[s].pc = "done" /\ ops[s].kind \in TransactionalKinds =>
              ops[s].ended = (IF ops[s].began THEN 1 ELSE 0)
    /\ (\A s \in Slots : ops[s].pc \in {"idle", "done"}) => ~db.inTxn

----------------------------------------------------------------------------
(* Properties of unenrollStudent *)

\* C28: unenrollStudent(S, D) never throws.  Unless the store call rejected,
\* it returns true exactly when a student_departments row of (S, D) existed;
\* that row is then still there, with isActive = FALSE and status
\* "withdrawn", S is not among getEnrollmentsByDepartment(D) and D is not
\* among getStudentDepartments(S).  When it returns false, on a store error
\* included, the store is as before the call.
C28_SoftUnenroll ==
    \A s \in Slots :
        LET o == ops[s]
            before == EnrollmentRows(o.pre, o.studentId, o.departmentId)
            now == EnrollmentRows(db.store, o.studentId, o.departmentId)
        IN  Completed(s, "unenrollStudent") =>
              /\ o.outcome = "returned"
              /\ o.result \in BOOLEAN
              /\ o.faults = 0 => (o.result <=> before # {})
              /\ o.faults > 0 => ~o.result
              /\ o.result =>
                    /\ Ids(now) = Ids(before) /\ now # {}
                    /\ \A r \in now : ~r.isActive /\ r.status = "withdrawn"
                    /\ o.studentId \notin Ids(getEnrollmentsByDepartment(db.store, o.departmentId))
                    /\ o.departmentId \notin Ids(getStudentDepartments(db.store, o.studentId))
              /\ ~o.result => db.store = o.pre

\* an actively enrolled student has been unenrolled
C28_Witness ==
    \E s \in Slots :
        /\ Returned(s, "unenrollStudent")
        /\ ops[s].result = TRUE
        /\ \E r \in EnrollmentRows(ops[s].pre, ops[s].studentId, ops[s].departmentId) :
              r.isActive /\ r.status = "active"
        /\ ops[s].studentId \in Ids(getEnrollmentsByDepartment(ops[s].pre, ops[s].departmentId))

----------------------------------------------------------------------------
(* Properties of single-statement writes beside a transaction *)

SingleStatementKinds ==
    {"addStudent", "updateStudent", "deleteStudent", "addBillItem", "addDepartment",
     "updateBill"}

\* C29, as stated: when addStudent, updateStudent, deleteStudent, addBillItem,
\* addDepartment or updateBill has returned to its caller and a transactional
\* operation running on the same connection at the same time has rolled back
\* and thrown, the rows the single-statement call wrote are in the file and
\* the rows it replaced are not.  (Judged where the two calls wrote different
\* rows.)
C29_SingleWritesDurable ==
    \A s, t \in Slots :
        /\ Returned(s, ops[s].kind) /\ ops[s].kind \in SingleStatementKinds
        /\ ops[t].pc = "done" /\ ops[t].kind \in TransactionalKinds
        /\ ops[t].outcome = "threw"
        /\ \A x \in Tables : WrittenIds(ops[s])[x] \cap WrittenIds(ops[t])[x] = {}
        => AllPersisted(ops[s], db.committed)

----------------------------------------------------------------------------
(* Properties of the Departments screen *)

\* C30, as stated: when handleEdit(department) has been followed by
\* saveDepartment with no bill item added to or removed from the form, and
\* the department had stored bill items, its bill_items rows are those of
\* before the save.
C30_EditKeepsBillItems ==
    \A s \in Slots :
        LET o == ops[s]
        IN  /\ Completed(s, "updateDepartment")
            /\ o.form.isEditing /\ ~o.form.itemsChanged
            /\ BillItemsOf(o.pre, o.payload.id) # {}
            => BillItemsOf(db.committed, o.payload.id) = BillItemsOf(o.pre, o.payload.id)

====
